---- MODULE Spec2Model ----
(***************************************************************************)
(* Live update distribution of WicketFever: the discovery loop and the     *)
(* subscription managers (jobs/liveMatchesWebhook.js, the diff-based       *)
(* LiveMatchesWebHookPoller, jobs/liveMatchesPoller.js) and the webhook    *)
(* ingestion routes (routes/webhook.js and its later revision).            *)
(***************************************************************************)
EXTENDS Integers, Sequences, FiniteSets, TLC

\* ------------------------------------------------------------ bounds
NumKeys == 2
MaxCandidates == 7
NumEvents == 1
MaxTime == 1
NumSockets == 2
NumInnings == 2

\* ------------------------------------------------------------ program constants
TopN == 5
REDIS_TTL_SHORT == 900
REDIS_TTL_LIVE == 10

Keys == 1..NumKeys
NoEntry == [present |-> FALSE]
Entry(v, ttl) == [present |-> TRUE, val |-> v, ttl |-> ttl]

Range(s) == {s[i] : i \in 1..Len(s)}
Min(a, b) == IF a < b THEN a ELSE b
Max(a, b) == IF a > b THEN a ELSE b

\* The job class server.js instantiates.
Impls == {"LiveMatchesWebhook", "LiveMatchesWebHookPoller", "LiveMatchesPoller"}

VARIABLES
  impl,                 \* which job class runs
  useWebhookScorecards, \* USE_WEBHOOK_SCORECARDS (read by LiveMatchesWebHookPoller)
  currentLiveMatches,   \* this.currentLiveMatches: array of match keys
  subscribedMatches,    \* this.subscribedMatches: Set of match keys
  isConnected,          \* RedisCache.isConnected
  featuredCache,        \* Redis entry of the featured-matches request
  liveKeysCache,        \* Redis entry 'live_matches_keys'
  lastOp,               \* the operation that ran last
  cycle,                \* what the last discovery cycle used and issued
  route,                \* which webhook router is mounted
  apiKey,               \* the configured webhook secret, or "unset"
  alive,                \* the process has not died of an uncaught exception
  matchCache,           \* Redis entries 'match:<key>'
  scorecardCache,       \* Redis entries 'scorecard-detailed:<key>'
  store,                \* Match documents by key
  ingest,               \* the last ingestion request and what it caused
  now,                  \* the clock new Date() reads
  io,                   \* the Socket.IO server is initialised
  sockets,              \* ids of the connected sockets
  connectedClients,     \* Map<matchKey, Set<socketId>>
  rooms,                \* Socket.IO rooms 'scorecard:<key>'
  joined,               \* the subscriptions the clients asked for and did not give up
  hub,                  \* the last hub operation and what it emitted
  client,               \* state of the node-redis client
  kv,                   \* Redis entry of the key fetchWithCache is called with
  cache,                \* the last call of the cache wrapper and what it returned
  read,                 \* the last read request and what it consulted
  token,                \* AuthService holds an unexpired token
  request,              \* the last makeRequest and what it did
  upstream,             \* what the origin answers a featured-matches request with
  exited,               \* the process has exited, and what it did on the way
  isPolling,            \* LiveMatchesPoller.isPolling
  pending,              \* match keys whose poll awaits the origin's answer
  poll,                 \* the last poll of one match and what it caused
  build,                \* the last call of buildDetailedScorecard and what it gave
  life,                 \* per match key, the statuses the webhook payloads went through
  requestQueue,         \* this.requestQueue: the requests waiting, oldest first
  isProcessingQueue,    \* this.isProcessingQueue
  requestsThisSecond,   \* this.requestsThisSecond
  sameSecond,           \* Math.floor(Date.now() / 1000) equals this.currentSecond
  worker,               \* where the processQueue loop stands
  wall,                 \* the wall clock: the tick within the second and the requests started
  promises,             \* per request, how often its promise was settled and how
  startOrder,           \* the requests in the order they were started
  matchRooms,           \* Socket.IO rooms 'match:<key>'
  activeMatchKeys,      \* SocketService.activeMatchKeys
  updateIntervals,      \* SocketService.updateIntervals: the handle stored per match, if any
  timers,               \* per match, the setInterval timers that run
  fetching,             \* per match, the initial fetches of startMatchUpdates in flight
  stopTimeouts,         \* per match, the pending setTimeout of a completed match
  svc,                  \* the last SocketService operation
  discoveries,          \* the runs of discoverLiveMatches in progress, each at its await
  registered,           \* the match keys subscribed at the provider
  redisQueue,           \* SET commands sent to Redis and not yet executed
  flights,              \* the payloads of one match being processed, each at its await
  redisData,            \* what Redis holds under 'match:<key>' and 'scorecard-detailed:<key>'
  subscriber            \* the update a subscriber received last and what it read then

discVars == <<impl, useWebhookScorecards, currentLiveMatches, subscribedMatches,
              isConnected, featuredCache, liveKeysCache, cycle>>
ingestVars == <<route, apiKey, alive, matchCache, scorecardCache, store, ingest, now>>
hubVars == <<io, sockets, connectedClients, rooms, joined, hub>>
tierVars == <<client, kv, cache, read>>
originVars == <<token, request>>
jobVars == <<upstream, exited, isPolling, pending, poll, build>>
lifeVars == <<life>>
queueVars == <<requestQueue, isProcessingQueue, requestsThisSecond, sameSecond, worker,
               wall, promises, startOrder>>
socketVars == <<matchRooms, activeMatchKeys, updateIntervals, timers, fetching, stopTimeouts, svc>>
overlapVars == <<discoveries, registered>>
flightVars == <<redisQueue, flights, redisData, subscriber>>

\* ------------------------------------------------------------ origin responses
\* What roanuzService.getFeaturedMatches resolves to (or that it rejects).
Throw == [kind |-> "throw", matches |-> <<>>]
EmptyBody == [kind |-> "empty", matches |-> <<>>]
AbsentBody == [kind |-> "absent", matches |-> <<>>]
ListBody(ms) == [kind |-> "list", matches |-> ms]

Match(k, st) == [key |-> k, status |-> st]

\* ascending subsequences of 1..n, as sequences
RECURSIVE SubSeqsOf(_)
SubSeqsOf(n) ==
  IF n = 0 THEN {<<>>}
  ELSE LET rest == SubSeqsOf(n - 1)
       IN rest \cup {Append(s, n) : s \in rest}

Reverse(s) == [i \in 1..Len(s) |-> s[Len(s) + 1 - i]]

\* Candidate lists of the subscription runs: the keys in ascending order, each
\* started, the last key started or completed.
ShortLists ==
  UNION {
    {[i \in 1..Len(s) |-> Match(s[i], IF s[i] = NumKeys THEN st ELSE "started")]
       : st \in {"started", "completed"}}
    : s \in SubSeqsOf(NumKeys)}

ShortResponses == {Throw, EmptyBody, AbsentBody} \cup {ListBody(ms) : ms \in ShortLists}

\* Candidate lists of the selection runs: up to MaxCandidates events in
\* ascending or descending key order, any status.
Statuses == {"started", "completed", "not_started"}
LongLists ==
  UNION {
    UNION {
      {[i \in 1..len |-> Match(i, st[i])], [i \in 1..len |-> Match(len + 1 - i, st[i])]}
      : st \in [1..len -> Statuses]}
    : len \in 0..MaxCandidates}

LongResponses == {ListBody(ms) : ms \in LongLists}

\* ------------------------------------------------------------ selection
FilterStarted(ms) == SelectSeq(ms, LAMBDA m : m.status = "started")
Slice(s, n) == SubSeq(s, 1, Min(n, Len(s)))
MapKey(ms) == [i \in 1..Len(ms) |-> ms[i].key]

\* (slice before filter)
SelectLive_sliceFirst(ms) == MapKey(FilterStarted(Slice(ms, TopN)))

\* .filter(match => match.status === 'started').slice(0, 5).map(match => match.key)
SelectLive(ms) == MapKey(Slice(FilterStarted(ms), TopN))

\* ------------------------------------------------------------ cache wrapper
\* RedisCache.get: null when not connected, else the stored value.
CacheGet(entry) == IF isConnected THEN entry ELSE NoEntry
\* RedisCache.set: no write when not connected.
CacheSet(entry, v, ttl) == IF isConnected THEN Entry(v, ttl) ELSE entry

\* ------------------------------------------------------------ origin client
\* makeRequest for the featured-matches URL: the cached response on a hit,
\* else the origin's; a non-empty response is cached when useCache is set.
FeaturedResponse(useCache, origin) ==
  IF useCache /\ CacheGet(featuredCache).present
  THEN featuredCache.val
  ELSE origin

FeaturedCacheAfter(useCache, origin) ==
  IF useCache /\ CacheGet(featuredCache).present
  THEN featuredCache
  ELSE IF useCache /\ origin.kind \in {"absent", "list"}
       THEN CacheSet(featuredCache, origin, REDIS_TTL_SHORT)
       ELSE featuredCache

\* ------------------------------------------------------------ LiveMatchesWebhook
\* updateSubscriptions: keys of the current list that the new list lacks.
matchesToUnsubscribe(cur, new) ==
  SelectSeq(cur, LAMBDA k : k \notin Range(new))

\* (no diff: every key of the new list)
matchesToSubscribe_all(cur, new, subs) == new

\* keys of the new list that are not current or not subscribed.

matchesToSubscribe(cur, new, subs) ==
  SelectSeq(new, LAMBDA k : k \notin Range(cur) \/ k \notin subs)

\* (no try/catch inside the loop: the first failure ends it)
RECURSIVE UnsubscribeLoop_abort(_, _, _)
UnsubscribeLoop_abort(todo, out, acc) ==
  IF todo = <<>> THEN acc
  ELSE LET k == Head(todo)
       IN IF out[k] = "ok"
          THEN UnsubscribeLoop_abort(Tail(todo), out,
                 [acc EXCEPT !.subs = @ \ {k}, !.issued = @ \cup {k}])
          ELSE [acc EXCEPT !.issued = @ \cup {k}, !.raised = TRUE]

\* for (const matchKey of matchesToUnsubscribe) { try { await unsubscribe;
\* delete } catch { log } }: [subs, issued, raised] after the loop.
RECURSIVE UnsubscribeLoop(_, _, _)
UnsubscribeLoop(todo, out, acc) ==
  IF todo = <<>> THEN acc
  ELSE LET k == Head(todo)
       IN UnsubscribeLoop(Tail(todo), out,
            [acc EXCEPT !.subs = IF out[k] = "ok" THEN @ \ {k} ELSE @,
                        !.issued = @ \cup {k}])

\* for (const matchKey of matchesToSubscribe) { try { await subscribe; add }
\* catch { if code === 'P-400-4' add; else log } }
RECURSIVE SubscribeLoop(_, _, _)
SubscribeLoop(todo, out, acc) ==
  IF todo = <<>> THEN acc
  ELSE LET k == Head(todo)
       IN SubscribeLoop(Tail(todo), out,
            [acc EXCEPT !.subs = IF out[k] \in {"ok", "already"} THEN @ \cup {k} ELSE @,
                        !.issued = @ \cup {k}])

StartLoop(subs) == [subs |-> subs, issued |-> {}, raised |-> FALSE]

\* ------------------------------------------------------------ cycle records
\* What one run of discoverLiveMatches leaves behind: the fields it assigns
\* and the provider calls it issued with their outcomes.
NoCalls == [k \in {} |-> "ok"]
NoCycle == [resp |-> Throw, unsub |-> NoCalls, sub |-> NoCalls, raised |-> FALSE]

Unchanged == [current |-> currentLiveMatches, subscribed |-> subscribedMatches,
              liveKeys |-> liveKeysCache, unsub |-> NoCalls, sub |-> NoCalls,
              raised |-> FALSE]

\* LiveMatchesWebhook.updateSubscriptions + the assignment that follows it.
updateSubscriptions(new, uo, so) ==
  LET tu == matchesToUnsubscribe(currentLiveMatches, new)
      ts == matchesToSubscribe(currentLiveMatches, new, subscribedMatches)
      U == UnsubscribeLoop(tu, uo, StartLoop(subscribedMatches))
      S == IF U.raised THEN [subs |-> U.subs, issued |-> {}, raised |-> TRUE]
           ELSE SubscribeLoop(ts, so, StartLoop(U.subs))
  IN [subscribed |-> S.subs,
      unsub |-> [k \in U.issued |-> uo[k]],
      sub |-> [k \in S.issued |-> so[k]],
      raised |-> S.raised]

\* (a failed request handled as an empty candidate list)
WebhookDiscover_throwAsEmpty(resp, uo, so) ==
  IF resp.kind = "throw"
  THEN [Unchanged EXCEPT !.current = <<>>,
                         !.liveKeys = CacheSet(liveKeysCache, <<>>, REDIS_TTL_SHORT)]
  ELSE Unchanged

\* LiveMatchesWebhook.discoverLiveMatches, given the response it awaited.

WebhookDiscover(resp, uo, so) ==
  IF resp.kind = "throw" THEN Unchanged                  \* catch: log only
  ELSE IF resp.kind # "list" THEN Unchanged              \* 'No matches found': return
  ELSE LET new == SelectLive(resp.matches)
           u == updateSubscriptions(new, uo, so)
       IN [current |-> IF u.raised THEN currentLiveMatches ELSE new,
           subscribed |-> u.subscribed,
           liveKeys |-> CacheSet(liveKeysCache, new, REDIS_TTL_SHORT),
           unsub |-> u.unsub, sub |-> u.sub,
           raised |-> FALSE]                             \* catch swallows

\* LiveMatchesWebHookPoller._resubscribeDiff: Promise.allSettled over both
\* lists, then delete / add every key of the list.
toUnsubscribe(subs, newSet) == subs \ newSet
toSubscribe(subs, newSet) == newSet \ subs

resubscribeDiff(newSet, uo, so) ==
  LET tu == toUnsubscribe(subscribedMatches, newSet)
      ts == toSubscribe(subscribedMatches, newSet)
  IN [subscribed |-> (subscribedMatches \ tu) \cup ts,
      unsub |-> [k \in tu |-> uo[k]],
      sub |-> [k \in ts |-> so[k]]]

\* LiveMatchesWebHookPoller.discoverLiveMatches.
WebHookPollerDiscover(resp, uo, so) ==
  IF resp.kind = "throw" THEN Unchanged
  ELSE IF resp.kind # "list"
  THEN IF useWebhookScorecards /\ subscribedMatches # {}
       THEN LET d == resubscribeDiff({}, uo, so)
            IN [Unchanged EXCEPT !.subscribed = d.subscribed, !.unsub = d.unsub, !.sub = d.sub]
       ELSE Unchanged
  ELSE LET new == SelectLive(resp.matches)
           d == IF useWebhookScorecards THEN resubscribeDiff(Range(new), uo, so)
                ELSE [subscribed |-> subscribedMatches, unsub |-> NoCalls, sub |-> NoCalls]
       IN [current |-> new,
           subscribed |-> d.subscribed,
           liveKeys |-> CacheSet(liveKeysCache, new, REDIS_TTL_SHORT),
           unsub |-> d.unsub, sub |-> d.sub,
           raised |-> FALSE]

\* LiveMatchesPoller.discoverLiveMatches (no subscriptions, useCache: false).
PollerDiscover(resp) ==
  IF resp.kind # "list" THEN Unchanged
  ELSE LET new == SelectLive(resp.matches)
       IN [Unchanged EXCEPT !.current = new,
                            !.liveKeys = CacheSet(liveKeysCache, new, REDIS_TTL_SHORT)]

\* The keys the cycle calls the provider for, given the response: the
\* outcomes of exactly these calls are the cycle's inputs.
WebhookCallKeys(resp) ==
  IF resp.kind # "list" THEN [u |-> {}, s |-> {}]
  ELSE LET new == SelectLive(resp.matches)
       IN [u |-> Range(matchesToUnsubscribe(currentLiveMatches, new)),
           s |-> Range(matchesToSubscribe(currentLiveMatches, new, subscribedMatches))]

WebHookPollerCallKeys(resp) ==
  LET newSet == IF resp.kind = "list" THEN Range(SelectLive(resp.matches)) ELSE {}
  IN IF resp.kind = "throw" \/ ~useWebhookScorecards THEN [u |-> {}, s |-> {}]
     ELSE [u |-> toUnsubscribe(subscribedMatches, newSet),
           s |-> toSubscribe(subscribedMatches, newSet)]

Commit(useCache, origin, r) ==
  /\ currentLiveMatches' = r.current
  /\ subscribedMatches' = r.subscribed
  /\ liveKeysCache' = r.liveKeys
  /\ featuredCache' = FeaturedCacheAfter(useCache, origin)
  /\ cycle' = [resp |-> FeaturedResponse(useCache, origin),
               unsub |-> r.unsub, sub |-> r.sub, raised |-> r.raised]
  /\ lastOp' = "discover"
  /\ UNCHANGED <<impl, useWebhookScorecards, isConnected>>
  /\ UNCHANGED ingestVars
  /\ UNCHANGED hubVars
  /\ UNCHANGED tierVars
  /\ UNCHANGED originVars
  /\ UNCHANGED jobVars
  /\ UNCHANGED lifeVars
  /\ UNCHANGED queueVars
  /\ UNCHANGED socketVars
  /\ UNCHANGED overlapVars
  /\ UNCHANGED flightVars

\* The origin is asked only on a cache miss (or with useCache: false).
Asked(useCache, R) ==
  IF useCache /\ CacheGet(featuredCache).present THEN {featuredCache.val} ELSE R

\* ------------------------------------------------------------ actions
\* R: the responses the origin may give; UO, SO: the outcomes of the
\* unsubscribe and subscribe calls.
DiscoverWebhook(R, UO, SO) ==
  /\ impl = "LiveMatchesWebhook"
  /\ \E origin \in Asked(TRUE, R) :
       LET resp == FeaturedResponse(TRUE, origin)
           ck == WebhookCallKeys(resp)
       IN \E uo \in [ck.u -> UO], so \in [ck.s -> SO] :
            Commit(TRUE, origin, WebhookDiscover(resp, uo, so))

DiscoverWebHookPoller(R, UO, SO) ==
  /\ impl = "LiveMatchesWebHookPoller"
  /\ \E origin \in Asked(TRUE, R) :
       LET resp == FeaturedResponse(TRUE, origin)
           ck == WebHookPollerCallKeys(resp)
       IN \E uo \in [ck.u -> UO], so \in [ck.s -> SO] :
            Commit(TRUE, origin, WebHookPollerDiscover(resp, uo, so))

DiscoverPoller(R) ==
  /\ impl = "LiveMatchesPoller"
  /\ \E origin \in Asked(FALSE, R) :
       Commit(FALSE, origin, PollerDiscover(FeaturedResponse(FALSE, origin)))

\* ---------------------------------------------------------------- ingestion
\* Two routers answer POST /roanuz/match/feed/v1: routes/webhook.js, which the
\* server mounts under /webhooks, and the raw-buffer router of part_005.
Routes == {"routes/webhook.js", "part_005"}
ApiKeys == {"unset", "secret"}
Headers == {"secret", "wrong"}

EventKeys == 1..NumEvents
\* Cache and store slots: one per match key, and the slot a key of undefined names.
CacheKeys == 0..Max(NumEvents, NumKeys)
Undefined == CHOOSE k \in CacheKeys : k \notin EventKeys

\* JSON values by the properties the routes read: key, match_key, data.
Json(shape, k) == [shape |-> shape, k |-> k]
JsonUndefined == Json("undefined", Undefined)
JsonNull == Json("null", Undefined)
KeyedShapes == {"key", "match_key", "data_key"}
Payloads ==
  {JsonNull, Json("empty", Undefined)}
    \cup {Json(sh, k) : sh \in KeyedShapes, k \in EventKeys}

PropKey(v) == IF v.shape = "key" THEN v.k ELSE Undefined
PropMatchKey(v) == IF v.shape = "match_key" THEN v.k ELSE Undefined
PropData(v) ==
  IF v.shape = "data_key" THEN Json("key", v.k) ELSE JsonUndefined

\* Request bodies: bytes that are neither a compressed stream nor JSON text, a
\* compressed stream of non-JSON text, JSON text, a compressed stream of JSON text.
Bodies ==
  {[form |-> f, payload |-> JsonUndefined] : f \in {"garbage", "zip_garbage"}}
    \cup {[form |-> f, payload |-> p] : f \in {"json", "zip_json"}, p \in Payloads}
Requests(encodings) == [header : Headers, encoding : encodings, body : Bodies]
Unzips(body) == body.form \in {"zip_json", "zip_garbage"}

\* One call of processWebhookData may have one of its calls fail.
Faults == {"none", "set_match", "set_scorecard", "push", "upsert"}

NoRequest == [header |-> "wrong", encoding |-> "identity",
              body |-> [form |-> "garbage", payload |-> JsonUndefined]]
NoIngest == [req |-> NoRequest, status |-> 0, responses |-> 0, unzip |-> FALSE,
             parse |-> FALSE, sets |-> {}, pushed |-> {}, upserts |-> {},
             fault |-> "none", repeat |-> FALSE]

Doc(md, sc) ==
  [present |-> TRUE, raw_data |-> md, detailed_scorecard |-> sc, last_updated |-> now]

\* A response sent before processWebhookData is reached.
Answer(status, unzip, parse) ==
  [status |-> status, responses |-> 1, unzip |-> unzip, parse |-> parse,
   sets |-> {}, pushed |-> {}, upserts |-> {}, fault |-> "none",
   match |-> matchCache, scorecard |-> scorecardCache, store |-> store, alive |-> TRUE]

\* An exception thrown inside a zlib callback is caught by nobody: no response is
\* sent and the process dies.
Uncaught(unzip, parse) ==
  [Answer(0, unzip, parse) EXCEPT !.responses = 0, !.alive = FALSE]

\* routes/webhook.js: buildDetailedScorecard has an empty body.
webhook_buildDetailedScorecard(matchData) ==
  [built |-> FALSE, match_key |-> Undefined, built_from |-> JsonUndefined]

\* routes/webhook.js: processWebhookData, then the 200 response.
webhook_processWebhookData(webhookData, fault, unzip) ==
  LET matchKey == PropMatchKey(webhookData)
      detailedScorecard == webhook_buildDetailedScorecard(webhookData)
      upsert == fault # "push"
  IN  [status |-> 200, responses |-> 1, unzip |-> unzip, parse |-> TRUE,
       sets |-> {<<"match", matchKey>>, <<"scorecard-detailed", matchKey>>},
       pushed |-> {matchKey},
       fault |-> fault,
       upserts |-> IF upsert THEN {matchKey} ELSE {},
       match |-> [matchCache EXCEPT ![matchKey] =
                    IF fault = "set_match" THEN @
                    ELSE CacheSet(@, [envelope |-> FALSE, data |-> webhookData],
                                  REDIS_TTL_LIVE)],
       scorecard |-> [scorecardCache EXCEPT ![matchKey] =
                    IF fault = "set_scorecard" THEN @
                    ELSE CacheSet(@, [envelope |-> TRUE, data |-> detailedScorecard],
                                  REDIS_TTL_LIVE)],
       store |-> [store EXCEPT ![matchKey] =
                    IF upsert /\ fault # "upsert"
                    THEN Doc(webhookData, detailedScorecard) ELSE @],
       alive |-> TRUE]

\* routes/webhook.js: data.match_key is read before processing; null has none.
webhook_process(data, fault, unzip) ==
  IF data = JsonNull THEN Answer(500, unzip, TRUE)
  ELSE webhook_processWebhookData(data, fault, unzip)

\* routes/webhook.js handler with the key check left out.
webhook_post_open(req, fault) ==
  IF req.encoding = "gzip"
  THEN IF ~Unzips(req.body) THEN Answer(400, TRUE, FALSE)
       ELSE IF req.body.form = "zip_garbage" THEN Uncaught(TRUE, TRUE)
       ELSE webhook_process(req.body.payload, fault, TRUE)
  ELSE IF req.body.form # "json" THEN Answer(400, FALSE, TRUE)
       ELSE webhook_process(req.body.payload, fault, FALSE)

\* routes/webhook.js: router.post('/roanuz/match/feed/v1').
webhook_post(req, fault) ==
  IF apiKey # "unset" /\ req.header # apiKey THEN Answer(401, FALSE, FALSE)
  ELSE IF req.encoding = "gzip"
  THEN IF ~Unzips(req.body) THEN Answer(400, TRUE, FALSE)
       ELSE IF req.body.form = "zip_garbage" THEN Uncaught(TRUE, TRUE)
       ELSE webhook_process(req.body.payload, fault, TRUE)
  ELSE IF req.body.form # "json" THEN Answer(400, FALSE, TRUE)
       ELSE webhook_process(req.body.payload, fault, FALSE)

\* part_005 buildDetailedScorecard stamping the scorecard with the build time.
part005_buildDetailedScorecard_stamped(matchData) ==
  [built |-> TRUE, match_key |-> PropKey(matchData), built_from |-> matchData,
   built_at |-> now]

\* part_005: buildDetailedScorecard reads matchData.key and the play data.
part005_buildDetailedScorecard(matchData) ==
  [built |-> TRUE, match_key |-> PropKey(matchData), built_from |-> matchData]

\* part_005 processWebhookData with the upsert failure passed on to the handler.
part005_processWebhookData_rethrow(matchData, fault) ==
  LET matchKey == IF PropKey(matchData) # Undefined THEN PropKey(matchData)
                  ELSE PropMatchKey(matchData)
      detailedScorecard == part005_buildDetailedScorecard(matchData)
  IN  [status |-> IF fault = "upsert" THEN 500 ELSE 200,
       responses |-> 1, unzip |-> TRUE, parse |-> TRUE,
       sets |-> {<<"match", matchKey>>, <<"scorecard-detailed", matchKey>>},
       pushed |-> {matchKey},
       fault |-> fault,
       upserts |-> {matchKey},
       match |-> [matchCache EXCEPT ![matchKey] =
                    IF fault = "set_match" THEN @
                    ELSE CacheSet(@, [envelope |-> TRUE, data |-> matchData],
                                  REDIS_TTL_LIVE)],
       scorecard |-> [scorecardCache EXCEPT ![matchKey] =
                    IF fault = "set_scorecard" THEN @
                    ELSE CacheSet(@, [envelope |-> TRUE, data |-> detailedScorecard],
                                  REDIS_TTL_LIVE)],
       store |-> [store EXCEPT ![matchKey] =
                    IF fault # "upsert"
                    THEN Doc(matchData, detailedScorecard) ELSE @],
       alive |-> TRUE]

\* part_005: processWebhookData, then the 200 response.
part005_processWebhookData(matchData, fault) ==
  LET matchKey == IF PropKey(matchData) # Undefined THEN PropKey(matchData)
                  ELSE PropMatchKey(matchData)
      detailedScorecard == part005_buildDetailedScorecard(matchData)
  IN  [status |-> 200, responses |-> 1, unzip |-> TRUE, parse |-> TRUE,
       sets |-> {<<"match", matchKey>>, <<"scorecard-detailed", matchKey>>},
       pushed |-> {matchKey},
       fault |-> fault,
       upserts |-> {matchKey},
       match |-> [matchCache EXCEPT ![matchKey] =
                    IF fault = "set_match" THEN @
                    ELSE CacheSet(@, [envelope |-> TRUE, data |-> matchData],
                                  REDIS_TTL_LIVE)],
       scorecard |-> [scorecardCache EXCEPT ![matchKey] =
                    IF fault = "set_scorecard" THEN @
                    ELSE CacheSet(@, [envelope |-> TRUE, data |-> detailedScorecard],
                                  REDIS_TTL_LIVE)],
       store |-> [store EXCEPT ![matchKey] =
                    IF fault # "upsert"
                    THEN Doc(matchData, detailedScorecard) ELSE @],
       alive |-> TRUE]

\* part_005: router.post('/roanuz/match/feed/v1').
part005_post(req, fault) ==
  IF apiKey # "unset" /\ req.header # apiKey THEN Answer(401, FALSE, FALSE)
  ELSE IF ~Unzips(req.body) THEN Answer(400, TRUE, FALSE)
  ELSE IF req.body.form = "zip_garbage" THEN Answer(400, TRUE, TRUE)
  ELSE LET payload == req.body.payload
           matchData == IF PropKey(PropData(payload)) # Undefined
                        THEN PropData(payload) ELSE payload
           matchKey == IF PropKey(matchData) # Undefined THEN PropKey(matchData)
                       ELSE PropMatchKey(matchData)
       IN  IF matchKey = Undefined THEN Answer(200, TRUE, TRUE)
           ELSE part005_processWebhookData(matchData, fault)

\* The calls of processWebhookData can fail only where it is reached.
FaultsOf(r) == IF r.sets = {} THEN {"none"} ELSE Faults

CommitIngest(req, r) ==
  /\ matchCache' = r.match
  /\ scorecardCache' = r.scorecard
  /\ store' = r.store
  /\ alive' = r.alive
  /\ ingest' = [req |-> req, status |-> r.status, responses |-> r.responses,
                unzip |-> r.unzip, parse |-> r.parse, sets |-> r.sets,
                pushed |-> r.pushed, upserts |-> r.upserts, fault |-> r.fault,
                repeat |-> lastOp = "ingest" /\ ingest.req = req /\ ingest.sets # {}]
  /\ lastOp' = "ingest"
  /\ UNCHANGED <<route, apiKey, now>>
  /\ UNCHANGED discVars
  /\ UNCHANGED hubVars
  /\ UNCHANGED tierVars
  /\ UNCHANGED originVars
  /\ UNCHANGED jobVars
  /\ UNCHANGED lifeVars
  /\ UNCHANGED queueVars
  /\ UNCHANGED socketVars
  /\ UNCHANGED overlapVars
  /\ UNCHANGED flightVars

PostWebhook ==
  /\ route = "routes/webhook.js"
  /\ alive
  /\ lastOp # "ingest"
  /\ \E req \in Requests({"gzip", "identity"}) :
       \E fault \in FaultsOf(webhook_post(req, "none")) :
         CommitIngest(req, webhook_post(req, fault))

\* The handler of part_005 reads no Content-Encoding header.
PostPart005 ==
  /\ route = "part_005"
  /\ alive
  /\ lastOp # "ingest"
  /\ \E req \in Requests({"identity"}) :
       \E fault \in FaultsOf(part005_post(req, "none")) :
         CommitIngest(req, part005_post(req, fault))

\* The handler has returned; requests are handled one at a time and the
\* environment moves between them.
Returned ==
  /\ lastOp = "ingest"
  /\ lastOp' = "idle"
  /\ ingest' = NoIngest
  /\ UNCHANGED <<route, apiKey, alive, matchCache, scorecardCache, store, now>>
  /\ UNCHANGED discVars
  /\ UNCHANGED hubVars
  /\ UNCHANGED tierVars
  /\ UNCHANGED originVars
  /\ UNCHANGED jobVars
  /\ UNCHANGED lifeVars
  /\ UNCHANGED queueVars
  /\ UNCHANGED socketVars
  /\ UNCHANGED overlapVars
  /\ UNCHANGED flightVars

\* A 'match:<key>' or 'scorecard-detailed:<key>' entry reaches its TTL.
ExpireMatch ==
  /\ lastOp # "ingest"
  /\ \E k \in CacheKeys :
       /\ matchCache[k].present
       /\ matchCache' = [matchCache EXCEPT ![k] = NoEntry]
  /\ lastOp' = "idle"
  /\ ingest' = NoIngest
  /\ UNCHANGED <<route, apiKey, alive, scorecardCache, store, now>>
  /\ UNCHANGED discVars
  /\ UNCHANGED hubVars
  /\ UNCHANGED tierVars
  /\ UNCHANGED originVars
  /\ UNCHANGED jobVars
  /\ UNCHANGED lifeVars
  /\ UNCHANGED queueVars
  /\ UNCHANGED socketVars
  /\ UNCHANGED overlapVars
  /\ UNCHANGED flightVars

ExpireScorecard ==
  /\ lastOp # "ingest"
  /\ \E k \in CacheKeys :
       /\ scorecardCache[k].present
       /\ scorecardCache' = [scorecardCache EXCEPT ![k] = NoEntry]
  /\ lastOp' = "idle"
  /\ ingest' = NoIngest
  /\ UNCHANGED <<route, apiKey, alive, matchCache, store, now>>
  /\ UNCHANGED discVars
  /\ UNCHANGED hubVars
  /\ UNCHANGED tierVars
  /\ UNCHANGED originVars
  /\ UNCHANGED jobVars
  /\ UNCHANGED lifeVars
  /\ UNCHANGED queueVars
  /\ UNCHANGED socketVars
  /\ UNCHANGED overlapVars
  /\ UNCHANGED flightVars

\* Redis client events: 'ready' sets isConnected, 'error' and 'end' clear it.
RedisReady ==
  /\ lastOp \notin {"ingest", "request"}
  /\ ~isConnected
  /\ isConnected' = TRUE
  /\ lastOp' = "idle"
  /\ cycle' = NoCycle
  /\ UNCHANGED <<impl, useWebhookScorecards, currentLiveMatches, subscribedMatches,
                 featuredCache, liveKeysCache>>
  /\ ingest' = NoIngest
  /\ UNCHANGED <<route, apiKey, alive, matchCache, scorecardCache, store, now>>
  /\ UNCHANGED hubVars
  /\ client' = "ready"
  /\ UNCHANGED <<kv, cache, read>>
  /\ UNCHANGED originVars
  /\ UNCHANGED jobVars
  /\ UNCHANGED lifeVars
  /\ UNCHANGED queueVars
  /\ UNCHANGED socketVars
  /\ UNCHANGED overlapVars
  /\ UNCHANGED flightVars

RedisDown ==
  /\ lastOp \notin {"ingest", "request"}
  /\ isConnected
  /\ isConnected' = FALSE
  /\ lastOp' = "idle"
  /\ cycle' = NoCycle
  /\ UNCHANGED <<impl, useWebhookScorecards, currentLiveMatches, subscribedMatches,
                 featuredCache, liveKeysCache>>
  /\ ingest' = NoIngest
  /\ UNCHANGED <<route, apiKey, alive, matchCache, scorecardCache, store, now>>
  /\ UNCHANGED hubVars
  /\ client' = "error"
  /\ UNCHANGED <<kv, cache, read>>
  /\ UNCHANGED originVars
  /\ UNCHANGED jobVars
  /\ UNCHANGED lifeVars
  /\ UNCHANGED queueVars
  /\ UNCHANGED socketVars
  /\ UNCHANGED overlapVars
  /\ UNCHANGED flightVars

\* A Redis entry reaches its TTL.
ExpireFeatured ==
  /\ featuredCache.present
  /\ featuredCache' = NoEntry
  /\ lastOp' = "idle"
  /\ cycle' = NoCycle
  /\ UNCHANGED <<impl, useWebhookScorecards, currentLiveMatches, subscribedMatches,
                 isConnected, liveKeysCache>>
  /\ UNCHANGED ingestVars
  /\ UNCHANGED hubVars
  /\ UNCHANGED tierVars
  /\ UNCHANGED originVars
  /\ UNCHANGED jobVars
  /\ UNCHANGED lifeVars
  /\ UNCHANGED queueVars
  /\ UNCHANGED socketVars
  /\ UNCHANGED overlapVars
  /\ UNCHANGED flightVars

ExpireLiveKeys ==
  /\ liveKeysCache.present
  /\ liveKeysCache' = NoEntry
  /\ lastOp' = "idle"
  /\ cycle' = NoCycle
  /\ UNCHANGED <<impl, useWebhookScorecards, currentLiveMatches, subscribedMatches,
                 isConnected, featuredCache>>
  /\ UNCHANGED ingestVars
  /\ UNCHANGED hubVars
  /\ UNCHANGED tierVars
  /\ UNCHANGED originVars
  /\ UNCHANGED jobVars
  /\ UNCHANGED lifeVars
  /\ UNCHANGED queueVars
  /\ UNCHANGED socketVars
  /\ UNCHANGED overlapVars
  /\ UNCHANGED flightVars

\* ---------------------------------------------------------------- fan-out hub
\* SocketScorecardService: sockets subscribe to a match key, pushScorecardUpdate
\* emits to the room of the key.
Sockets == 1..NumSockets
NoGroups == [k \in {} |-> {}]
NoDelivery == [s \in Sockets |-> 0]
NoEmit == [emits |-> 0, to |-> {}]
NoHub == [op |-> "none", socket |-> 0, key |-> 0, left |-> {}, emits |-> 0,
          delivered |-> NoDelivery]
Has(map, k) == k \in DOMAIN map
MapSet(map, k, v) == [j \in DOMAIN map \cup {k} |-> IF j = k THEN v ELSE map[j]]
MapDelete(map, k) == [j \in DOMAIN map \ {k} |-> map[j]]

\* constructor: io is null, the map is empty.
HubInit ==
  /\ io = FALSE
  /\ sockets = {}
  /\ connectedClients = NoGroups
  /\ rooms = [k \in Keys |-> {}]
  /\ joined = {}
  /\ hub = NoHub

HubDone(op, s, k, left, emit) ==
  /\ hub' = [op |-> op, socket |-> s, key |-> k, left |-> left, emits |-> emit.emits,
             delivered |-> [t \in Sockets |-> IF t \in emit.to THEN 1 ELSE 0]]
  /\ lastOp' = "hub"
  /\ UNCHANGED discVars
  /\ UNCHANGED ingestVars
  /\ UNCHANGED tierVars
  /\ UNCHANGED originVars
  /\ UNCHANGED jobVars
  /\ UNCHANGED lifeVars
  /\ UNCHANGED queueVars
  /\ UNCHANGED socketVars
  /\ UNCHANGED overlapVars
  /\ UNCHANGED flightVars

initialize ==
  /\ ~io
  /\ io' = TRUE
  /\ UNCHANGED <<sockets, connectedClients, rooms, joined>>
  /\ HubDone("initialize", 0, 0, {}, NoEmit)

\* A client connects: the 'connection' handler registers the socket's handlers.
Connect ==
  /\ io
  /\ \E s \in Sockets \ sockets :
       /\ sockets' = sockets \cup {s}
       /\ HubDone("connect", s, 0, {}, NoEmit)
  /\ UNCHANGED <<io, connectedClients, rooms, joined>>

\* handleSubscription setting a fresh set on every join.
handleSubscription_overwrite(map, s, k) == MapSet(map, k, {s})

\* The group is created by the first join; the socket id is added to it.
handleSubscription(map, s, k) ==
  LET created == IF ~Has(map, k) THEN MapSet(map, k, {}) ELSE map
  IN  MapSet(created, k, created[k] \cup {s})

\* The socket id is deleted; a group left empty is deleted from the map.
handleUnsubscription(map, s, k) ==
  IF Has(map, k)
  THEN LET left == MapSet(map, k, map[k] \ {s})
       IN  IF left[k] = {} THEN MapDelete(left, k) ELSE left
  ELSE map

\* handleDisconnection without the clean-up of empty groups, and without any effect.
handleDisconnection_keepEmpty(map, s) == [k \in DOMAIN map |-> map[k] \ {s}]
handleDisconnection_forget(map, s) == map

\* The socket id is deleted from every group; groups left empty are deleted.
handleDisconnection(map, s) ==
  LET kept == {k \in DOMAIN map : map[k] \ {s} # {}}
  IN  [k \in kept |-> map[k] \ {s}]

\* pushScorecardUpdate without the connectedClients.has test.
pushScorecardUpdate_always(map, k) ==
  IF ~io THEN NoEmit ELSE [emits |-> 1, to |-> rooms[k]]

\* One emit to the room of the key, which reaches the sockets in it.
pushScorecardUpdate(map, k) ==
  IF ~io THEN NoEmit
  ELSE IF Has(map, k) THEN [emits |-> 1, to |-> rooms[k]] ELSE NoEmit

Subscribe ==
  /\ \E s \in sockets, k \in Keys :
       /\ connectedClients' = handleSubscription(connectedClients, s, k)
       /\ rooms' = [rooms EXCEPT ![k] = @ \cup {s}]
       /\ joined' = joined \cup {<<s, k>>}
       /\ HubDone("subscribe", s, k, {}, NoEmit)
  /\ UNCHANGED <<io, sockets>>

Unsubscribe ==
  /\ \E s \in sockets, k \in Keys :
       /\ connectedClients' = handleUnsubscription(connectedClients, s, k)
       /\ rooms' = IF Has(connectedClients, k)
                   THEN [rooms EXCEPT ![k] = @ \ {s}] ELSE rooms
       /\ joined' = joined \ {<<s, k>>}
       /\ HubDone("unsubscribe", s, k, {j \in {k} : <<s, j>> \in joined}, NoEmit)
  /\ UNCHANGED <<io, sockets>>

\* Socket.IO takes the socket out of its rooms, then the 'disconnect' handler runs.
Disconnect ==
  /\ \E s \in sockets :
       /\ sockets' = sockets \ {s}
       /\ connectedClients' = handleDisconnection(connectedClients, s)
       /\ rooms' = [k \in Keys |-> rooms[k] \ {s}]
       /\ joined' = {m \in joined : m[1] # s}
       /\ HubDone("disconnect", s, 0, {j \in Keys : <<s, j>> \in joined}, NoEmit)
  /\ UNCHANGED io

Publish ==
  /\ \E k \in Keys :
       HubDone("publish", 0, k, {}, pushScorecardUpdate(connectedClients, k))
  /\ UNCHANGED <<io, sockets, connectedClients, rooms, joined>>

\* ------------------------------------------------------------ cache wrapper
\* services/cacheService.js. One key stands for the key fetchWithCache is
\* called with. The JSON values a caller caches; JavaScript's truthiness test
\* rejects the first four.
JsonValue(t) == [json |-> t]
Values ==
  {JsonValue(t) : t \in {"null", "false", "0", "empty_string", "object_a", "object_b"}}
Falsy == {JsonValue(t) : t \in {"null", "false", "0", "empty_string"}}
Truthy(v) == v \notin Falsy
Null == JsonValue("null")
\* The call throws (or its promise rejects).
Throws == [throws |-> TRUE]

\* JSON.stringify and JSON.parse: the stored string is the text of the value;
\* no text is the empty string, so a stored string is always truthy.
JSONstringify(v) == [text |-> v]
JSONparse(data) == data.text

\* States of the node-redis client the wrapper holds.
ClientStates == {"connecting", "ready", "error", "reconnecting", "ended", "retry"}

\* Outcomes of a call on the client: TRUE it answers, FALSE it throws.
\* A client that is not ready answers nothing.
ClientCalls == IF client = "ready" THEN BOOLEAN ELSE {FALSE}

NoCache == [op |-> "none", client |-> "connecting", connected |-> FALSE,
            getOk |-> FALSE, setOk |-> FALSE, had |-> NoEntry, fetchFn |-> Null,
            value |-> Null, ok |-> FALSE, raised |-> FALSE, invoked |-> 0]

\* get without its try/catch: a failing client call escapes.
get_nocatch(entry, clientOk) ==
  IF ~isConnected THEN [value |-> Null, raised |-> FALSE]
  ELSE IF ~clientOk THEN [value |-> Null, raised |-> TRUE]
  ELSE IF entry.present THEN [value |-> JSONparse(entry.val), raised |-> FALSE]
  ELSE [value |-> Null, raised |-> FALSE]

get(entry, clientOk) ==
  IF ~isConnected THEN [value |-> Null, raised |-> FALSE]
  ELSE IF ~clientOk THEN [value |-> Null, raised |-> FALSE]
  ELSE IF entry.present THEN [value |-> JSONparse(entry.val), raised |-> FALSE]
  ELSE [value |-> Null, raised |-> FALSE]

set(entry, data, expiry, clientOk) ==
  IF ~isConnected THEN [ok |-> FALSE, raised |-> FALSE, entry |-> entry]
  ELSE IF ~clientOk THEN [ok |-> FALSE, raised |-> FALSE, entry |-> entry]
  ELSE [ok |-> TRUE, raised |-> FALSE, entry |-> Entry(JSONstringify(data), expiry)]

delete(entry, clientOk) ==
  IF ~isConnected THEN [ok |-> FALSE, raised |-> FALSE, entry |-> entry]
  ELSE IF ~clientOk THEN [ok |-> FALSE, raised |-> FALSE, entry |-> entry]
  ELSE [ok |-> TRUE, raised |-> FALSE, entry |-> NoEntry]

\* fetchWithCache: the cached value is used when it is truthy; what get or
\* fetchFn raises is logged and thrown again.
fetchWithCache(entry, fetchFn, expiry, getOk, setOk) ==
  LET cachedData == get(entry, getOk) IN
  IF cachedData.raised
  THEN [value |-> Null, raised |-> TRUE, invoked |-> 0, entry |-> entry]
  ELSE IF Truthy(cachedData.value)
  THEN [value |-> cachedData.value, raised |-> FALSE, invoked |-> 0, entry |-> entry]
  ELSE IF fetchFn = Throws
  THEN [value |-> Null, raised |-> TRUE, invoked |-> 1, entry |-> entry]
  ELSE LET stored == set(entry, fetchFn, expiry, setOk) IN
       [value |-> fetchFn, raised |-> stored.raised, invoked |-> 1,
        entry |-> stored.entry]

CacheDone(op, getOk, setOk, fetchFn, r) ==
  /\ cache' = [op |-> op, client |-> client, connected |-> isConnected,
               getOk |-> getOk, setOk |-> setOk, had |-> kv, fetchFn |-> fetchFn,
               value |-> r.value, ok |-> r.ok, raised |-> r.raised,
               invoked |-> r.invoked]
  /\ kv' = r.entry
  /\ lastOp' = "cache"
  /\ UNCHANGED <<client, read>>
  /\ UNCHANGED originVars
  /\ UNCHANGED jobVars
  /\ UNCHANGED lifeVars
  /\ UNCHANGED queueVars
  /\ UNCHANGED socketVars
  /\ UNCHANGED overlapVars
  /\ UNCHANGED flightVars
  /\ UNCHANGED <<discVars, ingestVars, hubVars>>

Get ==
  \E clientOk \in ClientCalls :
    LET r == get(kv, clientOk) IN
    CacheDone("get", clientOk, clientOk, Null,
              [value |-> r.value, ok |-> TRUE, raised |-> r.raised, invoked |-> 0,
               entry |-> kv])

Set ==
  \E data \in Values, clientOk \in ClientCalls :
    LET r == set(kv, data, REDIS_TTL_SHORT, clientOk) IN
    CacheDone("set", clientOk, clientOk, data,
              [value |-> Null, ok |-> r.ok, raised |-> r.raised, invoked |-> 0,
               entry |-> r.entry])

Delete ==
  \E clientOk \in ClientCalls :
    LET r == delete(kv, clientOk) IN
    CacheDone("delete", clientOk, clientOk, Null,
              [value |-> Null, ok |-> r.ok, raised |-> r.raised, invoked |-> 0,
               entry |-> r.entry])

FetchWithCache ==
  \E fetchFn \in Values \cup {Throws}, getOk \in ClientCalls, setOk \in ClientCalls :
    LET r == fetchWithCache(kv, fetchFn, REDIS_TTL_SHORT, getOk, setOk) IN
    CacheDone("fetchWithCache", getOk, setOk, fetchFn,
              [value |-> r.value, ok |-> TRUE, raised |-> r.raised,
               invoked |-> r.invoked, entry |-> r.entry])

\* The entry reaches its TTL.
ExpireKv ==
  /\ lastOp # "request"
  /\ kv.present
  /\ kv' = NoEntry
  /\ lastOp' = "idle"
  /\ UNCHANGED <<client, cache, read>>
  /\ UNCHANGED originVars
  /\ UNCHANGED jobVars
  /\ UNCHANGED lifeVars
  /\ UNCHANGED queueVars
  /\ UNCHANGED socketVars
  /\ UNCHANGED overlapVars
  /\ UNCHANGED flightVars
  /\ UNCHANGED <<discVars, ingestVars, hubVars>>

\* An event of the client, as connect() wires it to isConnected.
ClientEvent(to, flag) ==
  /\ client' = to
  /\ isConnected' = flag
  /\ UNCHANGED <<impl, useWebhookScorecards, currentLiveMatches, subscribedMatches,
                 featuredCache, liveKeysCache, cycle>>
  /\ UNCHANGED <<kv, cache, read>>
  /\ UNCHANGED originVars
  /\ UNCHANGED jobVars
  /\ UNCHANGED lifeVars
  /\ UNCHANGED queueVars
  /\ UNCHANGED socketVars
  /\ UNCHANGED overlapVars
  /\ UNCHANGED flightVars
  /\ UNCHANGED <<ingestVars, hubVars, lastOp>>

\* 'ready', and the return of client.connect() that follows it.
onReady ==
  /\ client \in {"connecting", "reconnecting"}
  /\ ClientEvent("ready", TRUE)

onError ==
  /\ client \in {"connecting", "ready", "reconnecting"}
  /\ ClientEvent("error", FALSE)

\* 'reconnecting' is logged only.
onReconnecting ==
  /\ client = "error"
  /\ ClientEvent("reconnecting", isConnected)

onEnd ==
  /\ client \in {"ready", "error", "reconnecting"}
  /\ ClientEvent("ended", FALSE)

\* client.connect() rejects: the catch arms the 5 s timer.
connectRejected ==
  /\ client \in {"connecting", "error"}
  /\ ClientEvent("retry", FALSE)

\* The timer calls connect(), which creates a new client.
connectRetry ==
  /\ client = "retry"
  /\ ClientEvent("connecting", isConnected)

\* ------------------------------------------------------------ read path
\* controllers/matchController.js: getMatchDetails and getMatchScorecardDetailed.
REDIS_TTL_MEDIUM == 86400
REDIS_TTL_LONG == 604800
\* The TTLs getMatchDetails writes as literals.
TTL_COMPLETED == 86400
TTL_STARTED == 30
TTL_UPCOMING == 900

\* The statuses the Match schema admits.
MatchStatuses == {"not_started", "started", "completed", "abandoned"}

\* The match the origin describes; innings says whether play.innings has keys.
OriginMatch(k, st, inn) == [key |-> k, status |-> st, innings |-> inn]

\* What roanuzService.getMatchDetails gives: it throws, answers without data,
\* or answers with the match.
OriginAnswers(k) ==
  {Throws, [data |-> Null]}
    \cup {[data |-> OriginMatch(k, st, inn)] : st \in MatchStatuses, inn \in BOOLEAN}

\* Match.findOneAndUpdate({key}, {...matchData, last_updated, raw_data}, {upsert}).
MatchDoc(matchData) ==
  [present |-> TRUE, key |-> matchData.key, status |-> matchData.status,
   innings |-> matchData.innings, raw_data |-> matchData, last_updated |-> now]

NoRead == [op |-> "none", key |-> 0, connected |-> FALSE, getOk |-> FALSE,
           had |-> NoEntry, consulted |-> {}, status |-> 0, body |-> Null,
           wrote |-> FALSE, ttl |-> 0, of |-> "none"]

Served(consulted, status, body) ==
  [consulted |-> consulted, status |-> status, body |-> body, wrote |-> FALSE,
   ttl |-> 0, of |-> "none"]

\* getMatchDetails with a Tier A lookup in front, as getMatchScorecardDetailed has.
getMatchDetails_cacheFirst(k, origin, getOk, setOk) ==
  LET cachedData == get(matchCache[k], getOk)
      existingMatch == store[k] IN
  IF Truthy(cachedData.value)
  THEN Served({"tierA"}, 200, cachedData.value)
         @@ [entry |-> matchCache[k], doc |-> store[k]]
  ELSE IF existingMatch.present /\ existingMatch.status = "completed"
  THEN LET response == [data |-> existingMatch]
           stored == set(matchCache[k], response, TTL_COMPLETED, setOk) IN
       [consulted |-> {"tierA", "store"}, status |-> 200, body |-> response,
        wrote |-> TRUE, ttl |-> TTL_COMPLETED, of |-> "completed",
        entry |-> stored.entry, doc |-> store[k]]
  ELSE IF origin = Throws
  THEN (IF existingMatch.present
        THEN Served({"tierA", "store", "origin"}, 200,
                    [data |-> existingMatch, stale |-> TRUE])
        ELSE Served({"tierA", "store", "origin"}, 500, Null))
         @@ [entry |-> matchCache[k], doc |-> store[k]]
  ELSE IF Truthy(origin.data)
  THEN LET matchData == origin.data
           ttl == IF matchData.status = "completed" THEN TTL_COMPLETED
                  ELSE IF matchData.status = "started" THEN TTL_STARTED
                  ELSE TTL_UPCOMING
           stored == set(matchCache[k], origin, ttl, setOk) IN
       [consulted |-> {"tierA", "store", "origin"}, status |-> 200, body |-> origin,
        wrote |-> TRUE, ttl |-> ttl, of |-> matchData.status,
        entry |-> stored.entry, doc |-> MatchDoc(matchData)]
  ELSE Served({"tierA", "store", "origin"}, 200, origin)
         @@ [entry |-> matchCache[k], doc |-> store[k]]

\* getMatchDetails: the durable store first, then the origin; 'match:<key>' is
\* written and never read.
getMatchDetails(k, origin, getOk, setOk) ==
  LET existingMatch == store[k] IN
  IF existingMatch.present /\ existingMatch.status = "completed"
  THEN LET response == [data |-> existingMatch]
           stored == set(matchCache[k], response, TTL_COMPLETED, setOk) IN
       [consulted |-> {"store"}, status |-> 200, body |-> response,
        wrote |-> TRUE, ttl |-> TTL_COMPLETED, of |-> "completed",
        entry |-> stored.entry, doc |-> store[k]]
  ELSE IF origin = Throws
  THEN (IF existingMatch.present
        THEN Served({"store", "origin"}, 200, [data |-> existingMatch, stale |-> TRUE])
        ELSE Served({"store", "origin"}, 500, Null))
         @@ [entry |-> matchCache[k], doc |-> store[k]]
  ELSE IF Truthy(origin.data)
  THEN LET matchData == origin.data
           ttl == IF matchData.status = "completed" THEN TTL_COMPLETED
                  ELSE IF matchData.status = "started" THEN TTL_STARTED
                  ELSE TTL_UPCOMING
           stored == set(matchCache[k], origin, ttl, setOk) IN
       [consulted |-> {"store", "origin"}, status |-> 200, body |-> origin,
        wrote |-> TRUE, ttl |-> ttl, of |-> matchData.status,
        entry |-> stored.entry, doc |-> MatchDoc(matchData)]
  ELSE Served({"store", "origin"}, 200, origin)
         @@ [entry |-> matchCache[k], doc |-> store[k]]

\* fetchFreshMatchData: the match and the document it leaves, or null.
fetchFreshMatchData(k, origin) ==
  IF origin = Throws THEN [matchData |-> Null, doc |-> store[k]]
  ELSE IF Truthy(origin.data)
  THEN [matchData |-> origin.data, doc |-> MatchDoc(origin.data)]
  ELSE [matchData |-> Null, doc |-> store[k]]

getMatchScorecardDetailed(k, origin, getOk, setOk) ==
  LET cachedData == get(scorecardCache[k], getOk)
      existingMatch == store[k]
      hasCompleteScorecard ==
        /\ existingMatch.present
        /\ existingMatch.status = "completed"
        /\ existingMatch.innings
      fresh == fetchFreshMatchData(k, origin)
      matchData == IF hasCompleteScorecard THEN existingMatch ELSE fresh.matchData
      doc == IF hasCompleteScorecard THEN store[k] ELSE fresh.doc
      consulted == IF hasCompleteScorecard THEN {"tierA", "store"}
                   ELSE {"tierA", "store", "origin"} IN
  IF Truthy(cachedData.value)
  THEN Served({"tierA"}, 200, cachedData.value)
         @@ [entry |-> scorecardCache[k], doc |-> store[k]]
  ELSE IF ~Truthy(matchData)
  THEN Served(consulted, 500, Null) @@ [entry |-> scorecardCache[k], doc |-> doc]
  ELSE IF matchData.status \notin {"completed", "started"}
  THEN Served(consulted, 400, Null) @@ [entry |-> scorecardCache[k], doc |-> doc]
  ELSE LET response == [match_key |-> matchData.key,
                        match_status |-> matchData.status,
                        innings |-> matchData.innings]
           cacheTTL == IF matchData.status = "completed" THEN REDIS_TTL_LONG
                       ELSE IF matchData.status = "started" THEN REDIS_TTL_LIVE
                       ELSE REDIS_TTL_MEDIUM
           stored == set(scorecardCache[k], [data |-> response], cacheTTL, setOk) IN
       [consulted |-> consulted, status |-> 200, body |-> [data |-> response],
        wrote |-> TRUE, ttl |-> cacheTTL, of |-> matchData.status,
        entry |-> stored.entry, doc |-> doc]

ReadDone(op, k, getOk, had, r) ==
  /\ read' = [op |-> op, key |-> k, connected |-> isConnected, getOk |-> getOk,
              had |-> had, consulted |-> r.consulted, status |-> r.status,
              body |-> r.body, wrote |-> r.wrote, ttl |-> r.ttl, of |-> r.of]
  /\ store' = [store EXCEPT ![k] = r.doc]
  /\ lastOp' = "read"
  /\ ingest' = NoIngest
  /\ UNCHANGED <<route, apiKey, alive, now>>
  /\ UNCHANGED <<client, kv, cache>>
  /\ UNCHANGED originVars
  /\ UNCHANGED jobVars
  /\ UNCHANGED lifeVars
  /\ UNCHANGED queueVars
  /\ UNCHANGED socketVars
  /\ UNCHANGED overlapVars
  /\ UNCHANGED flightVars
  /\ UNCHANGED <<discVars, hubVars>>

GetMatchDetails ==
  \E k \in EventKeys, getOk \in ClientCalls, setOk \in ClientCalls :
  \E origin \in OriginAnswers(k) :
    LET r == getMatchDetails(k, origin, getOk, setOk) IN
    /\ matchCache' = [matchCache EXCEPT ![k] = r.entry]
    /\ UNCHANGED scorecardCache
    /\ ReadDone("getMatchDetails", k, getOk, matchCache[k], r)

GetMatchScorecardDetailed ==
  \E k \in EventKeys, getOk \in ClientCalls, setOk \in ClientCalls :
  \E origin \in OriginAnswers(k) :
    LET r == getMatchScorecardDetailed(k, origin, getOk, setOk) IN
    /\ scorecardCache' = [scorecardCache EXCEPT ![k] = r.entry]
    /\ UNCHANGED matchCache
    /\ ReadDone("getMatchScorecardDetailed", k, getOk, scorecardCache[k], r)

TierInit ==
  /\ client = "connecting"
  /\ kv = NoEntry
  /\ cache = NoCache
  /\ read = NoRead

\* ------------------------------------------------------------ origin client
\* RoanuzService.makeRequest (part_007, services/roanuzService.js) and the
\* AuthService it takes its token from. kv stands for the entry of its cacheKey.
MaxExpires == 2
MaxAge == 1

\* The cache block of a response: expires in epoch seconds, max_age in seconds;
\* 0 stands for a field that is absent (or 0), which the code tests as falsy.
Hints == [expires : 0..MaxExpires, max_age : 0..MaxAge]
NoHint == [expires |-> 0, max_age |-> 0]

\* What an HTTP call ends in: an answer, a 401 answer, any other failure.
Outcomes == {"ok", "401", "error"}

\* response.data: nothing, or a body with its cache block.
ResponseData ==
  {Null} \cup {[body |-> JsonValue("object_a"), cache |-> h] : h \in Hints}
OriginResponses ==
  {[outcome |-> o, data |-> Null] : o \in {"401", "error"}}
    \cup {[outcome |-> "ok", data |-> d] : d \in ResponseData}

\* The TTLs callers pass as cacheTTL.
CallerTTLs == {REDIS_TTL_SHORT, REDIS_TTL_LIVE}

\* Date.now(): the clock in milliseconds.
DateNow(ms) == now * 1000 + ms

\* AuthService.getToken: the held token, or refreshToken's request to the auth URL.
getToken(tok, auth) ==
  IF tok THEN [token |-> TRUE, error |-> "none", auths |-> 0]
  ELSE IF auth = "ok" THEN [token |-> TRUE, error |-> "none", auths |-> 1]
  ELSE [token |-> FALSE, error |-> auth, auths |-> 1]

\* AuthService.forceRefreshToken: drop the token, then getToken.
forceRefreshToken(auth) == getToken(FALSE, auth)

\* The catch of makeRequest retrying after every failure.
IsAuthError_any(error) == error # "none"

\* The catch of makeRequest: error.response.status === 401.
IsAuthError(error) == error = "401"

\* The ttl of the cache write: the caller's, unless the response says otherwise.
ResponseTTL(cacheTTL, hint, currentMs) ==
  IF hint.expires # 0
  THEN IF hint.expires * 1000 > currentMs
       THEN (hint.expires * 1000 - currentMs) \div 1000
       ELSE cacheTTL
  ELSE IF hint.max_age # 0 THEN hint.max_age
  ELSE cacheTTL

\* One attempt: createApiClient, the request, and the cache write.
attempt(entry, tok, auth, response, useCache, cacheTTL, setOk, currentMs) ==
  LET t == getToken(tok, auth) IN
  IF t.error # "none"
  THEN [error |-> t.error, token |-> t.token, auths |-> t.auths, requests |-> 0,
        value |-> Null, wrote |-> FALSE, ttl |-> 0, hint |-> NoHint, entry |-> entry]
  ELSE IF response.outcome # "ok"
  THEN [error |-> response.outcome, token |-> t.token, auths |-> t.auths,
        requests |-> 1, value |-> Null, wrote |-> FALSE, ttl |-> 0, hint |-> NoHint,
        entry |-> entry]
  ELSE IF useCache /\ Truthy(response.data)
  THEN LET ttl == ResponseTTL(cacheTTL, response.data.cache, currentMs) IN
       [error |-> "none", token |-> t.token, auths |-> t.auths, requests |-> 1,
        value |-> response.data, wrote |-> TRUE, ttl |-> ttl,
        hint |-> response.data.cache,
        entry |-> set(entry, response.data, ttl, setOk).entry]
  ELSE [error |-> "none", token |-> t.token, auths |-> t.auths, requests |-> 1,
        value |-> response.data, wrote |-> FALSE, ttl |-> 0, hint |-> NoHint,
        entry |-> entry]

NoRequestLog ==
  [op |-> "none", useCache |-> FALSE, cacheTTL |-> 0, currentMs |-> 0, hit |-> FALSE,
   first |-> "none", refreshes |-> 0, refreshed |-> FALSE, requests |-> 0,
   retries |-> 0, retry |-> "none", raised |-> FALSE, error |-> "none",
   wrote |-> FALSE, ttl |-> 0, hint |-> NoHint]

\* makeRequest: cache lookup, attempt, and on a 401 one forced refresh and a
\* second attempt whose failure is thrown on.
makeRequest(entry, tok, useCache, cacheTTL, getOk, setOk, auth, first, auth2, second, ms) ==
  LET cachedData == IF useCache THEN get(entry, getOk).value ELSE Null
      a == attempt(entry, tok, auth, first, useCache, cacheTTL, setOk, DateNow(ms))
      f == forceRefreshToken(auth2)
      b == attempt(entry, f.token, "ok", second, useCache, cacheTTL, setOk, DateNow(ms))
      base == [NoRequestLog EXCEPT !.op = "makeRequest", !.useCache = useCache,
                                   !.cacheTTL = cacheTTL, !.currentMs = DateNow(ms)]
  IN
  IF useCache /\ Truthy(cachedData)
  THEN [log |-> [base EXCEPT !.hit = TRUE],
        token |-> tok, entry |-> entry]
  ELSE IF a.error = "none"
  THEN [log |-> [base EXCEPT !.first = "ok", !.requests = a.requests,
                             !.wrote = a.wrote, !.ttl = a.ttl, !.hint = a.hint],
        token |-> a.token, entry |-> a.entry]
  ELSE IF ~IsAuthError(a.error)
  THEN [log |-> [base EXCEPT !.first = a.error, !.requests = a.requests,
                             !.raised = TRUE, !.error = a.error],
        token |-> a.token, entry |-> entry]
  ELSE IF f.error # "none"
  THEN [log |-> [base EXCEPT !.first = a.error, !.requests = a.requests,
                             !.refreshes = 1, !.raised = TRUE, !.error = f.error],
        token |-> FALSE, entry |-> entry]
  ELSE [log |-> [base EXCEPT !.first = a.error, !.requests = a.requests + b.requests,
                             !.refreshes = 1, !.refreshed = TRUE,
                             !.retries = b.requests,
                             !.retry = IF b.error = "none" THEN "ok" ELSE b.error,
                             !.raised = b.error # "none", !.error = b.error,
                             !.wrote = b.wrote, !.ttl = b.ttl, !.hint = b.hint],
        token |-> TRUE, entry |-> b.entry]

\* The calls a makeRequest gets to make: the auth request of the first attempt
\* only without a token, the request only with one, the forced refresh only
\* after a 401, the second request only after the refresh.
Unused == [outcome |-> "ok", data |-> Null]
Auths == IF token THEN {"ok"} ELSE Outcomes
Firsts(auth) == IF auth = "ok" THEN OriginResponses ELSE {Unused}
Refreshes(auth, first) ==
  IF auth = "401" \/ (auth = "ok" /\ first.outcome = "401") THEN Outcomes ELSE {"ok"}
Seconds(auth, first, auth2) ==
  IF (auth = "401" \/ (auth = "ok" /\ first.outcome = "401")) /\ auth2 = "ok"
  THEN OriginResponses ELSE {Unused}

\* Redis answers here whenever it is connected; requests are made one at a time.
MakeRequest ==
  /\ lastOp # "request"
  /\ \E useCache \in BOOLEAN, cacheTTL \in CallerTTLs, ms \in {0, 500},
        auth \in Auths :
     \E first \in Firsts(auth) :
     \E auth2 \in Refreshes(auth, first) :
     \E second \in Seconds(auth, first, auth2) :
       LET r == makeRequest(kv, token, useCache, cacheTTL, TRUE, TRUE,
                            auth, first, auth2, second, ms) IN
       /\ request' = r.log
       /\ token' = r.token
       /\ kv' = r.entry
       /\ lastOp' = "request"
       /\ UNCHANGED <<client, cache, read>>
       /\ UNCHANGED <<discVars, ingestVars, hubVars>>
       /\ UNCHANGED jobVars
       /\ UNCHANGED lifeVars
       /\ UNCHANGED queueVars
       /\ UNCHANGED socketVars
       /\ UNCHANGED overlapVars
       /\ UNCHANGED flightVars

\* The call has returned or thrown.
RequestReturned ==
  /\ lastOp = "request"
  /\ lastOp' = "idle"
  /\ request' = NoRequestLog
  /\ UNCHANGED token
  /\ UNCHANGED <<discVars, ingestVars, hubVars, tierVars>>
  /\ UNCHANGED jobVars
  /\ UNCHANGED lifeVars
  /\ UNCHANGED queueVars
  /\ UNCHANGED socketVars
  /\ UNCHANGED overlapVars
  /\ UNCHANGED flightVars

\* The 23 hours of tokenValidityPeriod are over.
TokenExpires ==
  /\ lastOp # "request"
  /\ token
  /\ token' = FALSE
  /\ UNCHANGED <<request, lastOp>>
  /\ UNCHANGED <<discVars, ingestVars, hubVars, tierVars>>
  /\ UNCHANGED jobVars
  /\ UNCHANGED lifeVars
  /\ UNCHANGED queueVars
  /\ UNCHANGED socketVars
  /\ UNCHANGED overlapVars
  /\ UNCHANGED flightVars

OriginInit ==
  /\ token = FALSE
  /\ request = NoRequestLog

\* --------------------------------------------------------------- the jobs
\* What one run of pollMatchDetailedScorecard leaves behind.
NoPoll == [key |-> 0, answer |-> "none", status |-> "none", dropped |-> FALSE,
           sets |-> {}, pushed |-> FALSE, upserts |-> FALSE]
\* The process runs; on its way out it would record the keys it held and the
\* unsubscribe calls it issued.
Running == [done |-> FALSE, held |-> {}, unsubscribed |-> {}]

\* ---- buildDetailedScorecard (jobs/liveMatchesPoller.js; part_005 and the
\* scorecardBuilder of part_000 carry the same text)
\* Innings keys '<team>_<n>'; 0 stands for a key the innings map never has.
InningsKeys == 1..NumInnings
OrderKeys == 0..NumInnings
\* inningsKey.split('_')[0]
split0(inningsKey) == IF inningsKey % 2 = 1 THEN "a" ELSE "b"
TeamKeys == {"a", "b"}

\* An entry of play.innings: null, a record the formatting code accepts, or a
\* record with a field of the wrong type (strike_rate a string, a null player).
InningKinds == {"null", "plain", "malformed"}
InningsMaps == UNION {[ks -> InningKinds] : ks \in SUBSET InningsKeys}

RECURSIVE SeqsUpTo(_, _)
SeqsUpTo(S, n) ==
  IF n = 0 THEN {<<>>}
  ELSE LET shorter == SeqsUpTo(S, n - 1)
       IN shorter \cup {Append(q, x) : q \in {r \in shorter : Len(r) = n - 1}, x \in S}

\* play.innings_order: absent, or a list of keys.
InningsOrders ==
  {[given |-> FALSE]} \cup {[given |-> TRUE, list |-> q] : q \in SeqsUpTo(OrderKeys, NumInnings)}
Plays ==
  {[present |-> FALSE]}
    \cup {[present |-> TRUE, innings |-> im, innings_order |-> io_] :
            im \in InningsMaps, io_ \in InningsOrders}
\* matchData.teams: absent, or a map with some of the teams.
TeamMaps == {[present |-> FALSE]} \cup {[present |-> TRUE, has |-> t] : t \in SUBSET TeamKeys}

\* The argument: null, undefined, a number, or a match record.
MatchInputs ==
  {[json |-> j] : j \in {"null", "undefined", "number"}}
    \cup {[json |-> "object", key |-> 1, status |-> "started", play |-> pl, teams |-> t] :
            pl \in Plays, t \in TeamMaps}

\* Object.keys(innings): the keys in insertion order.
RECURSIVE ObjectKeys(_)
ObjectKeys(im) ==
  IF DOMAIN im = {} THEN <<>>
  ELSE LET k == CHOOSE x \in DOMAIN im : \A y \in DOMAIN im : x <= y
       IN <<k>> \o ObjectKeys([j \in DOMAIN im \ {k} |-> im[j]])

\* The for loop over inningsOrder: the segments pushed, or that a statement threw.
RECURSIVE processInnings(_, _, _, _)
processInnings(inningsOrder, innings, teams, processedInnings) ==
  IF inningsOrder = <<>> THEN [threw |-> FALSE, innings |-> processedInnings]
  ELSE LET inningsKey == Head(inningsOrder)
           rest == Tail(inningsOrder) IN
       IF inningsKey \notin DOMAIN innings \/ innings[inningsKey] = "null"
       THEN processInnings(rest, innings, teams, processedInnings)      \* continue
       ELSE IF innings[inningsKey] = "malformed"
       THEN [threw |-> TRUE, innings |-> processedInnings]
       ELSE IF ~teams.present \/ split0(inningsKey) \notin teams.has
       THEN [threw |-> TRUE, innings |-> processedInnings]           \* teams[teamKey].name
       ELSE processInnings(rest, innings, teams,
              Append(processedInnings, [team |-> split0(inningsKey)]))

\* The value returned, or that the call raised.
Returns(v) == [raised |-> FALSE, value |-> v]
Raises == [raised |-> TRUE]

\* try { ... } catch (error) { console.error(`... ${matchData.key}`); return
\* {match_key: matchData.key, ..., innings: [], error} }: reading .play of null
\* or undefined throws, and so does reading .key of it in the catch block.
buildDetailedScorecard(matchData) ==
  IF matchData.json \in {"null", "undefined"} THEN Raises
  ELSE IF matchData.json # "object"
  THEN Returns([match_key |-> 0, match_status |-> "undefined", innings |-> <<>>,
                error |-> FALSE])
  ELSE LET innings == IF matchData.play.present THEN matchData.play.innings
                      ELSE [k \in {} |-> "null"]
           inningsOrder == IF matchData.play.present /\ matchData.play.innings_order.given
                           THEN matchData.play.innings_order.list
                           ELSE ObjectKeys(innings)
           done == processInnings(inningsOrder, innings, matchData.teams, <<>>) IN
       IF done.threw
       THEN Returns([match_key |-> matchData.key, match_status |-> matchData.status,
                     innings |-> <<>>, error |-> TRUE])
       ELSE Returns([match_key |-> matchData.key, match_status |-> matchData.status,
                     innings |-> done.innings, error |-> FALSE])

\* routes/webhook.js: function buildDetailedScorecard(matchData) { } has only
\* comments in its body, so every call returns undefined.
webhook_js_buildDetailedScorecard(matchData) == Returns([json |-> "undefined"])

\* No call of buildDetailedScorecard yet.
NoBuild == [called |-> FALSE]

\* One call of the function with an argument of any shape: what the poller's
\* copy (and the three copies with the same text) gives, and what the copy of
\* routes/webhook.js gives.
BuildDetailedScorecard ==
  /\ \E matchData \in MatchInputs :
       build' = [called |-> TRUE, input |-> matchData,
                 result |-> buildDetailedScorecard(matchData),
                 webhook |-> webhook_js_buildDetailedScorecard(matchData)]
  /\ lastOp' = "build"
  /\ UNCHANGED <<upstream, exited, isPolling, pending, poll>>
  /\ UNCHANGED lifeVars
  /\ UNCHANGED queueVars
  /\ UNCHANGED socketVars
  /\ UNCHANGED overlapVars
  /\ UNCHANGED flightVars
  /\ UNCHANGED <<discVars, ingestVars, hubVars, tierVars, originVars>>

\* ---- the rate-limited request queue (services/cacheService.js,
\* UnofficialCricbuzzService; routes/roanuzWebhook.js carries the same text)
MaxRequests == 6
\* if (this.requestsThisSecond >= 5)
MaxPerSecond == 5
\* The wall clock is read in ticks, this many to the second (at least 2).
TicksPerSecond == 2
RequestIds == 1..MaxRequests

\* A promise rateLimitedRequest has not made yet.
NoPromise == [made |-> FALSE, resolved |-> 0, rejected |-> 0]
\* No processQueue loop runs.
Idle == [pc |-> "idle", id |-> 0, loops |-> 0]

\* constructor: empty queue, no loop, this.currentSecond = 0 (no second of
\* the wall clock).
QueueInit ==
  /\ requestQueue = <<>>
  /\ isProcessingQueue = FALSE
  /\ requestsThisSecond = 0
  /\ sameSecond = FALSE
  /\ worker = Idle
  /\ wall = [tick |-> 0, starts |-> 0, before |-> 0, second |-> 0]
  /\ promises = [r \in RequestIds |-> NoPromise]
  /\ startOrder = <<>>

\* ---- SocketService (services/clientSocketService.js)
SocketInit ==
  /\ matchRooms = [k \in EventKeys |-> {}]
  /\ activeMatchKeys = {}
  /\ updateIntervals = {}
  /\ timers = [k \in EventKeys |-> 0]
  /\ fetching = [k \in EventKeys |-> 0]
  /\ stopTimeouts = [k \in EventKeys |-> 0]
  /\ svc = "none"

\* ---- runs of LiveMatchesWebhook.discoverLiveMatches that overlap
MaxRuns == 2
Runs == 1..MaxRuns
NoRun == [pc |-> "idle", new |-> <<>>, unsub |-> <<>>, sub |-> <<>>]

OverlapInit ==
  /\ discoveries = [c \in Runs |-> NoRun]
  /\ registered = {}

\* ---- payloads of one match processed concurrently
MaxVersions == 3
Versions == 1..MaxVersions

FlightInit ==
  /\ redisQueue = <<>>
  /\ flights = [v \in Versions |-> "none"]
  /\ redisData = [match |-> 0, scorecard |-> 0]
  /\ subscriber = [update |-> 0, read |-> 0]

JobInit ==
  /\ upstream = EmptyBody
  /\ exited = Running
  /\ isPolling = FALSE
  /\ pending = {}
  /\ poll = NoPoll
  /\ build = NoBuild
  /\ life = [k \in EventKeys |-> "none"]
  /\ QueueInit
  /\ SocketInit
  /\ OverlapInit
  /\ FlightInit

vars == <<discVars, ingestVars, hubVars, tierVars, originVars, jobVars, lifeVars,
          queueVars, socketVars, overlapVars, flightVars, lastOp>>

\* No request handled yet, nothing cached or stored.
IngestInit ==
  /\ alive = TRUE
  /\ now = 0
  /\ matchCache = [k \in CacheKeys |-> NoEntry]
  /\ scorecardCache = [k \in CacheKeys |-> NoEntry]
  /\ store = [k \in CacheKeys |-> NoEntry]
  /\ ingest = NoIngest

\* State after construction: empty lists, Redis connecting.
Init ==
  /\ impl \in Impls
  /\ useWebhookScorecards \in (IF impl = "LiveMatchesWebHookPoller" THEN BOOLEAN ELSE {FALSE})
  /\ currentLiveMatches = <<>>
  /\ subscribedMatches = {}
  /\ isConnected = FALSE
  /\ featuredCache = NoEntry
  /\ liveKeysCache = NoEntry
  /\ lastOp = "idle"
  /\ cycle = NoCycle
  /\ route = "routes/webhook.js"
  /\ apiKey = "unset"
  /\ IngestInit
  /\ HubInit
  /\ TierInit
  /\ OriginInit
  /\ JobInit

UnsubOutcomes == {"ok", "fail"}
SubOutcomes == {"ok", "already", "fail"}

Next ==
  \/ DiscoverWebhook(ShortResponses, UnsubOutcomes, SubOutcomes)
  \/ DiscoverWebHookPoller(ShortResponses, UnsubOutcomes, SubOutcomes)
  \/ DiscoverPoller(ShortResponses)
  \/ RedisReady
  \/ RedisDown
  \/ ExpireFeatured
  \/ ExpireLiveKeys

Spec == Init /\ [][Next]_vars

\* One discovery cycle over a long candidate list, every provider call succeeding.
NextSelect ==
  /\ lastOp # "discover"
  /\ \/ DiscoverWebhook(LongResponses, {"ok"}, {"ok"})
     \/ DiscoverWebHookPoller(LongResponses, {"ok"}, {"ok"})
     \/ DiscoverPoller(LongResponses)
     \/ RedisReady

SpecSelect == Init /\ [][NextSelect]_vars

\* The webhook routers alone: the job is the one server.js starts and stays idle.
InitIngest ==
  /\ impl = "LiveMatchesWebhook"
  /\ useWebhookScorecards = FALSE
  /\ currentLiveMatches = <<>>
  /\ subscribedMatches = {}
  /\ isConnected = FALSE
  /\ featuredCache = NoEntry
  /\ liveKeysCache = NoEntry
  /\ lastOp = "idle"
  /\ cycle = NoCycle
  /\ route \in Routes
  /\ apiKey \in ApiKeys
  /\ IngestInit
  /\ HubInit
  /\ TierInit
  /\ OriginInit
  /\ JobInit

NextIngest ==
  \/ PostWebhook
  \/ PostPart005
  \/ Returned
  \/ RedisReady
  \/ RedisDown
  \/ ExpireMatch
  \/ ExpireScorecard

SpecIngest == InitIngest /\ [][NextIngest]_vars

\* Deliveries that pass the key check and decode, of payloads the router finds a
\* key in; the sender may deliver the same one again.
Decodes(req) ==
  IF route = "routes/webhook.js" /\ req.encoding # "gzip"
  THEN req.body.form = "json"
  ELSE req.body.form = "zip_json"
KeyFound(p) ==
  IF route = "routes/webhook.js" THEN p.shape = "match_key"
  ELSE p.shape \in KeyedShapes
Deliveries(encodings) ==
  {req \in Requests(encodings) :
     req.header = "secret" /\ Decodes(req) /\ KeyFound(req.body.payload)}

DeliverWebhook ==
  /\ route = "routes/webhook.js"
  /\ alive
  /\ \E req \in Deliveries({"gzip", "identity"}) :
       \E fault \in Faults :
         CommitIngest(req, webhook_post(req, fault))

DeliverPart005 ==
  /\ route = "part_005"
  /\ alive
  /\ \E req \in Deliveries({"identity"}) :
       \E fault \in Faults :
         CommitIngest(req, part005_post(req, fault))

\* Time passes between two deliveries.
Tick ==
  /\ lastOp # "request"
  /\ now < MaxTime
  /\ now' = now + 1
  /\ UNCHANGED <<route, apiKey, alive, matchCache, scorecardCache, store, ingest>>
  /\ UNCHANGED <<discVars, lastOp>>
  /\ UNCHANGED hubVars
  /\ UNCHANGED tierVars
  /\ UNCHANGED originVars
  /\ UNCHANGED jobVars
  /\ UNCHANGED lifeVars
  /\ UNCHANGED queueVars
  /\ UNCHANGED socketVars
  /\ UNCHANGED overlapVars
  /\ UNCHANGED flightVars

NextRedeliver ==
  \/ DeliverWebhook
  \/ DeliverPart005
  \/ Tick
  \/ Returned
  \/ RedisReady
  \/ RedisDown

SpecRedeliver == InitIngest /\ [][NextRedeliver]_vars

\* The hub alone: the job and the routers stay as constructed.
InitHub ==
  /\ impl = "LiveMatchesWebhook"
  /\ useWebhookScorecards = FALSE
  /\ currentLiveMatches = <<>>
  /\ subscribedMatches = {}
  /\ isConnected = FALSE
  /\ featuredCache = NoEntry
  /\ liveKeysCache = NoEntry
  /\ lastOp = "idle"
  /\ cycle = NoCycle
  /\ route = "routes/webhook.js"
  /\ apiKey = "unset"
  /\ IngestInit
  /\ HubInit
  /\ TierInit
  /\ OriginInit
  /\ JobInit

NextHub ==
  \/ initialize
  \/ Connect
  \/ Subscribe
  \/ Unsubscribe
  \/ Disconnect
  \/ Publish

SpecHub == InitHub /\ [][NextHub]_vars

\* The cache wrapper alone, with the events of its client.
NextCache ==
  \/ Get
  \/ Set
  \/ Delete
  \/ FetchWithCache
  \/ ExpireKv
  \/ onReady
  \/ onError
  \/ onReconnecting
  \/ onEnd
  \/ connectRejected
  \/ connectRetry

SpecCache == InitHub /\ [][NextCache]_vars

\* The two read handlers alone, with Redis coming and going and entries expiring.
NextRead ==
  \/ GetMatchDetails
  \/ GetMatchScorecardDetailed
  \/ ExpireMatch
  \/ ExpireScorecard
  \/ RedisReady
  \/ RedisDown

SpecRead == InitHub /\ [][NextRead]_vars

\* The origin client alone, with its token, the clock and Redis.
NextOrigin ==
  \/ MakeRequest
  \/ RequestReturned
  \/ TokenExpires
  \/ ExpireKv
  \/ Tick
  \/ RedisReady
  \/ RedisDown

SpecOrigin == InitHub /\ [][NextOrigin]_vars

\* ---- LiveMatchesPoller: the 5-second poll
\* What roanuzService.getMatchDetails(matchKey, {useCache: false}) gives the poll.
PollAnswers(k, statuses) ==
  {Throws, [data |-> Null]} \cup {[data |-> OriginMatch(k, st, TRUE)] : st \in statuses}

\* The match of the origin as the record buildDetailedScorecard reads: one
\* innings of team a when play.innings has keys.
PlayOf(md) ==
  [json |-> "object", key |-> md.key, status |-> md.status,
   play |-> IF md.innings
            THEN [present |-> TRUE, innings |-> [i \in {1} |-> "plain"],
                  innings_order |-> [given |-> FALSE]]
            ELSE [present |-> FALSE],
   teams |-> [present |-> TRUE, has |-> TeamKeys]]

Polled(k, answer, status) ==
  [key |-> k, answer |-> answer, status |-> status, dropped |-> FALSE, sets |-> {},
   pushed |-> FALSE, upserts |-> FALSE, current |-> currentLiveMatches,
   match |-> matchCache[k], scorecard |-> scorecardCache[k], doc |-> store[k],
   emit |-> NoEmit]

\* (no status test: whatever the origin reports is written and published)
pollMatchDetailedScorecard_anyStatus(k, matchData, setMatchOk, setScorecardOk, upsertOk) ==
  IF matchData = Throws THEN Polled(k, "throw", "none")
  ELSE IF ~Truthy(matchData.data) THEN Polled(k, "nodata", "none")
  ELSE LET detailedScorecard == buildDetailedScorecard(PlayOf(matchData.data)).value IN
       [Polled(k, "data", matchData.data.status) EXCEPT
          !.sets = {<<"match", k>>, <<"scorecard-detailed", k>>},
          !.match = set(matchCache[k], matchData, REDIS_TTL_LIVE, setMatchOk).entry,
          !.scorecard = set(scorecardCache[k], [data |-> detailedScorecard],
                            REDIS_TTL_LIVE, setScorecardOk).entry,
          !.pushed = TRUE,
          !.emit = pushScorecardUpdate(connectedClients, k),
          !.upserts = upsertOk,
          !.doc = IF upsertOk THEN MatchDoc(matchData.data) ELSE @]

\* pollMatchDetailedScorecard, given what the origin answered and how the two
\* cache writes and the upsert fare. The Match schema has no detailed_scorecard
\* path, so the document keeps the match fields, last_updated and raw_data.
pollMatchDetailedScorecard(k, matchData, setMatchOk, setScorecardOk, upsertOk) ==
  IF matchData = Throws THEN Polled(k, "throw", "none")            \* catch: log
  ELSE IF ~Truthy(matchData.data) THEN Polled(k, "nodata", "none") \* warn, return
  ELSE IF matchData.data.status # "started"
  THEN [Polled(k, "data", matchData.data.status) EXCEPT
          !.dropped = TRUE,
          !.current = SelectSeq(currentLiveMatches, LAMBDA j : j # k)]
  ELSE LET detailedScorecard == buildDetailedScorecard(PlayOf(matchData.data)).value IN
       [Polled(k, "data", matchData.data.status) EXCEPT
          !.sets = {<<"match", k>>, <<"scorecard-detailed", k>>},
          !.match = set(matchCache[k], matchData, REDIS_TTL_LIVE, setMatchOk).entry,
          !.scorecard = set(scorecardCache[k], [data |-> detailedScorecard],
                            REDIS_TTL_LIVE, setScorecardOk).entry,
          !.pushed = TRUE,
          !.emit = pushScorecardUpdate(connectedClients, k),
          !.upserts = upsertOk,
          !.doc = IF upsertOk THEN MatchDoc(matchData.data) ELSE @]

\* (no isPolling test: every tick starts a batch)
PollDetailedScorecards_noGuard ==
  /\ impl = "LiveMatchesPoller"
  /\ currentLiveMatches # <<>>
  /\ isPolling' = TRUE
  /\ pending' = pending \cup Range(currentLiveMatches)
  /\ poll' = NoPoll
  /\ lastOp' = "poll"
  /\ UNCHANGED <<upstream, exited, build>>
  /\ UNCHANGED <<discVars, ingestVars, hubVars, tierVars, originVars>>
  /\ UNCHANGED lifeVars
  /\ UNCHANGED queueVars
  /\ UNCHANGED socketVars
  /\ UNCHANGED overlapVars
  /\ UNCHANGED flightVars

\* pollDetailedScorecards up to Promise.allSettled: one request per tracked
\* match is under way.
PollDetailedScorecards ==
  /\ impl = "LiveMatchesPoller"
  /\ currentLiveMatches # <<>>
  /\ ~isPolling
  /\ isPolling' = TRUE
  /\ pending' = Range(currentLiveMatches)
  /\ poll' = NoPoll
  /\ lastOp' = "poll"
  /\ UNCHANGED <<upstream, exited, build>>
  /\ UNCHANGED <<discVars, ingestVars, hubVars, tierVars, originVars>>
  /\ UNCHANGED lifeVars
  /\ UNCHANGED queueVars
  /\ UNCHANGED socketVars
  /\ UNCHANGED overlapVars
  /\ UNCHANGED flightVars

\* The origin answers one of the requests and pollMatchDetailedScorecard runs
\* to its end. statuses: the statuses the origin may report; failures: whether
\* a cache write on a ready client, or the upsert, may fail.
PollMatchDetailedScorecard(statuses, failures) ==
  \E k \in pending, setMatchOk \in ClientCalls, setScorecardOk \in ClientCalls,
     upsertOk \in BOOLEAN :
  \E matchData \in PollAnswers(k, statuses) :
    LET r == pollMatchDetailedScorecard(k, matchData, setMatchOk, setScorecardOk, upsertOk) IN
    /\ (r.sets = {} \/ ~failures) =>
         setMatchOk = (client = "ready") /\ setScorecardOk = (client = "ready")
    /\ (~r.pushed \/ ~failures) => upsertOk
    /\ pending' = pending \ {k}
    /\ currentLiveMatches' = r.current
    /\ matchCache' = [matchCache EXCEPT ![k] = r.match]
    /\ scorecardCache' = [scorecardCache EXCEPT ![k] = r.scorecard]
    /\ store' = [store EXCEPT ![k] = r.doc]
    /\ hub' = IF r.pushed
              THEN [op |-> "publish", socket |-> 0, key |-> k, left |-> {},
                    emits |-> r.emit.emits,
                    delivered |-> [t \in Sockets |-> IF t \in r.emit.to THEN 1 ELSE 0]]
              ELSE hub
    /\ poll' = [key |-> r.key, answer |-> r.answer, status |-> r.status,
                dropped |-> r.dropped, sets |-> r.sets, pushed |-> r.pushed,
                upserts |-> r.upserts]
    /\ lastOp' = "poll"
    /\ UNCHANGED <<impl, useWebhookScorecards, subscribedMatches, isConnected,
                   featuredCache, liveKeysCache, cycle>>
    /\ UNCHANGED <<route, apiKey, alive, ingest, now>>
    /\ UNCHANGED <<io, sockets, connectedClients, rooms, joined>>
    /\ UNCHANGED <<upstream, exited, isPolling, build>>
    /\ UNCHANGED lifeVars
    /\ UNCHANGED queueVars
    /\ UNCHANGED socketVars
    /\ UNCHANGED overlapVars
    /\ UNCHANGED flightVars
    /\ UNCHANGED <<tierVars, originVars>>

\* Promise.allSettled resolves; finally { this.isPolling = false }.
PollSettled ==
  /\ isPolling
  /\ pending = {}
  /\ isPolling' = FALSE
  /\ poll' = NoPoll
  /\ lastOp' = "idle"
  /\ UNCHANGED <<upstream, exited, pending, build>>
  /\ UNCHANGED lifeVars
  /\ UNCHANGED queueVars
  /\ UNCHANGED socketVars
  /\ UNCHANGED overlapVars
  /\ UNCHANGED flightVars
  /\ UNCHANGED <<discVars, ingestVars, hubVars, tierVars, originVars>>

\* ---- part_005 on payloads that carry a status
\* processWebhookData(matchData) for a match payload with key, status and
\* play data: both Tier A entries with REDIS_TTL_LIVE whatever the status, the
\* push, then the upsert, whose failure is logged.
processWebhookData(matchData, setMatchOk, setScorecardOk, upsertOk) ==
  LET matchKey == matchData.key
      detailedScorecard == buildDetailedScorecard(PlayOf(matchData)).value IN
  [match |-> set(matchCache[matchKey], [data |-> matchData], REDIS_TTL_LIVE,
                 setMatchOk).entry,
   scorecard |-> set(scorecardCache[matchKey], [data |-> detailedScorecard],
                     REDIS_TTL_LIVE, setScorecardOk).entry,
   emit |-> pushScorecardUpdate(connectedClients, matchKey),
   doc |-> IF upsertOk THEN MatchDoc(matchData) ELSE store[matchKey]]

\* The statuses the payloads of a key went through: none, then live once a
\* started payload came, then completed once a completed one followed.
LifeAfter(l, status) ==
  IF l = "none" /\ status = "started" THEN "live"
  ELSE IF l = "live" /\ status = "completed" THEN "completed"
  ELSE l

\* The provider delivers a payload for a match; the router accepts it. The
\* cache writes succeed on a ready client; the upsert may fail.
DeliverMatch ==
  \E k \in EventKeys, st \in {"started", "completed", "abandoned"}, inn \in BOOLEAN,
     upsertOk \in BOOLEAN :
    LET setMatchOk == client = "ready"
        setScorecardOk == client = "ready"
        r == processWebhookData(OriginMatch(k, st, inn), setMatchOk, setScorecardOk,
                                upsertOk) IN
    /\ matchCache' = [matchCache EXCEPT ![k] = r.match]
    /\ scorecardCache' = [scorecardCache EXCEPT ![k] = r.scorecard]
    /\ store' = [store EXCEPT ![k] = r.doc]
    /\ hub' = [op |-> "publish", socket |-> 0, key |-> k, left |-> {},
               emits |-> r.emit.emits,
               delivered |-> [t \in Sockets |-> IF t \in r.emit.to THEN 1 ELSE 0]]
    /\ life' = [life EXCEPT ![k] = LifeAfter(@, st)]
    /\ read' = NoRead
    /\ lastOp' = "deliver"
    /\ UNCHANGED <<route, apiKey, alive, ingest, now>>
    /\ UNCHANGED <<io, sockets, connectedClients, rooms, joined>>
    /\ UNCHANGED <<client, kv, cache>>
    /\ UNCHANGED <<discVars, originVars, jobVars>>
    /\ UNCHANGED <<queueVars, socketVars, overlapVars, flightVars>>

\* The provider's featured-matches list changes, or the provider starts or
\* stops answering.
UpstreamChanges ==
  /\ \E r \in ShortResponses \ {upstream} : upstream' = r
  /\ lastOp' = "idle"
  /\ UNCHANGED <<exited, isPolling, pending, poll, build>>
  /\ UNCHANGED lifeVars
  /\ UNCHANGED queueVars
  /\ UNCHANGED socketVars
  /\ UNCHANGED overlapVars
  /\ UNCHANGED flightVars
  /\ UNCHANGED <<discVars, ingestVars, hubVars, tierVars, originVars>>

\* Discovery cycles of the three jobs against a provider whose list changes;
\* every subscribe and unsubscribe call succeeds.
NextFresh ==
  \/ UpstreamChanges
  \/ DiscoverWebhook({upstream}, {"ok"}, {"ok"})
  \/ DiscoverWebHookPoller({upstream}, {"ok"}, {"ok"})
  \/ DiscoverPoller({upstream})
  \/ RedisReady
  \/ RedisDown
  \/ ExpireFeatured

SpecFresh == Init /\ [][NextFresh]_vars

\* buildDetailedScorecard alone, called with arguments of every shape.
NextBuild == BuildDetailedScorecard

SpecBuild == InitHub /\ [][NextBuild]_vars

\* The process is told to stop (SIGINT, SIGTERM). server.js registers no
\* handler for it and the job has no stop method: the process exits at once,
\* with the subscriptions it holds and without a call to the provider.
ProcessExit ==
  /\ ~exited.done
  /\ exited' = [done |-> TRUE, held |-> subscribedMatches, unsubscribed |-> {}]
  /\ lastOp' = "exit"
  /\ UNCHANGED <<upstream, isPolling, pending, poll, build>>
  /\ UNCHANGED lifeVars
  /\ UNCHANGED queueVars
  /\ UNCHANGED socketVars
  /\ UNCHANGED overlapVars
  /\ UNCHANGED flightVars
  /\ UNCHANGED <<discVars, ingestVars, hubVars, tierVars, originVars>>

\* Discovery cycles until the process is stopped.
NextExit ==
  \/ /\ ~exited.done
     /\ \/ DiscoverWebhook(ShortResponses, UnsubOutcomes, SubOutcomes)
        \/ DiscoverWebHookPoller(ShortResponses, UnsubOutcomes, SubOutcomes)
        \/ DiscoverPoller(ShortResponses)
        \/ RedisReady
  \/ ProcessExit

SpecExit == Init /\ [][NextExit]_vars

\* LiveMatchesPoller alone: discovery every 30 s, the poll every 5 s; Redis
\* writes and upserts succeed.
InitPoll ==
  /\ Init
  /\ impl = "LiveMatchesPoller"

\* The candidate lists of the poll runs: every listed match started.
StartedResponses ==
  {Throw} \cup {ListBody(ms) : ms \in {l \in ShortLists : \A i \in 1..Len(l) : l[i].status = "started"}}

NextPoll ==
  \/ DiscoverPoller(StartedResponses)
  \/ PollDetailedScorecards
  \/ PollMatchDetailedScorecard({"started", "completed", "abandoned"}, FALSE)
  \/ PollSettled
  \/ RedisReady

SpecPoll == InitPoll /\ [][NextPoll]_vars

\* The batches of the poll alone: discovery finds every match live, Redis stays
\* unconnected; the origin answers every request of a batch and the event loop
\* runs the continuation of a settled batch.
AllStarted == {ListBody([i \in 1..NumKeys |-> Match(i, "started")])}

NextBatch ==
  \/ DiscoverPoller(AllStarted)
  \/ PollDetailedScorecards
  \/ PollMatchDetailedScorecard({"started", "completed"}, FALSE)
  \/ PollSettled

SpecBatch ==
  /\ InitPoll
  /\ [][NextBatch]_vars
  /\ WF_vars(PollMatchDetailedScorecard({"started", "completed"}, FALSE))
  /\ WF_vars(PollSettled)

\* Payloads of part_005 and the two read handlers on the same keys.
NextLife ==
  \/ DeliverMatch
  \/ GetMatchDetails
  \/ GetMatchScorecardDetailed
  \/ ExpireScorecard
  \/ RedisReady

SpecLife == InitHub /\ [][NextLife]_vars

\* ============================================================ claims
Subscribing ==
  \/ impl = "LiveMatchesWebhook"
  \/ impl = "LiveMatchesWebHookPoller" /\ useWebhookScorecards

Succeeded(calls) == \A k \in DOMAIN calls : calls[k] \in {"ok", "already"}

\* C1: in a cycle that starts with the previous Selection Set S1 fully
\* subscribed and selects S2, unsubscribe is issued exactly for S1 \ S2 and
\* subscribe exactly for S2 \ S1; when every call succeeded S2 is fully
\* subscribed afterwards, and a further cycle selecting the same S2 issues
\* no call at all.
C1_Diff ==
  LET S1 == Range(currentLiveMatches)
      S2 == Range(currentLiveMatches')
  IN (/\ lastOp' = "discover"
      /\ Subscribing
      /\ cycle'.resp.kind = "list"
      /\ S1 = subscribedMatches)
     => /\ DOMAIN cycle'.unsub = S1 \ S2
        /\ DOMAIN cycle'.sub = S2 \ S1
        /\ (Succeeded(cycle'.unsub) /\ Succeeded(cycle'.sub)) => subscribedMatches' = S2

C1_Repeat ==
  (/\ lastOp = "discover" /\ lastOp' = "discover"
   /\ Subscribing
   /\ cycle.resp.kind = "list" /\ cycle'.resp.kind = "list"
   /\ Succeeded(cycle.unsub) /\ Succeeded(cycle.sub)
   /\ Range(currentLiveMatches) = subscribedMatches
   /\ currentLiveMatches' = currentLiveMatches)
  => cycle'.unsub = NoCalls /\ cycle'.sub = NoCalls

C1_DiffExact == [][C1_Diff /\ C1_Repeat]_vars

C1_Witness ==
  /\ lastOp = "discover"
  /\ impl = "LiveMatchesWebhook"
  /\ cycle.resp.kind = "list"
  /\ DOMAIN cycle.unsub # {} /\ DOMAIN cycle.sub # {}
  /\ Succeeded(cycle.unsub) /\ Succeeded(cycle.sub)
  /\ Range(currentLiveMatches) = subscribedMatches
  /\ DOMAIN cycle.sub \subseteq subscribedMatches
  /\ DOMAIN cycle.unsub \cap subscribedMatches = {}

\* C2: a key whose subscribe call succeeded or was answered 'already
\* subscribed' is in the subscribed set; a key whose subscribe call failed
\* otherwise is absent from it, and the next cycle that still selects the key
\* issues subscribe for it again.
C2_Recorded ==
  lastOp = "discover" =>
    \A k \in DOMAIN cycle.sub :
      /\ cycle.sub[k] \in {"ok", "already"} => k \in subscribedMatches
      /\ cycle.sub[k] = "fail" => k \notin subscribedMatches

C2_Retried ==
  (/\ lastOp = "discover" /\ lastOp' = "discover"
   /\ cycle'.resp.kind = "list")
  => \A k \in DOMAIN cycle.sub :
       (cycle.sub[k] = "fail" /\ k \in Range(SelectLive(cycle'.resp.matches)))
         => k \in DOMAIN cycle'.sub

C2_SubscribeOutcome == [](C2_Recorded) /\ [][C2_Retried]_vars

\* C3: a failed unsubscribe call leaves the key's membership in the
\* subscribed set as it was, and a key leaves the subscribed set only in a
\* cycle whose unsubscribe call for it succeeded.
C3_Step ==
  /\ lastOp' = "discover" =>
       \A k \in DOMAIN cycle'.unsub :
         cycle'.unsub[k] = "fail" => (k \in subscribedMatches' <=> k \in subscribedMatches)
  /\ \A k \in subscribedMatches \ subscribedMatches' :
       /\ lastOp' = "discover"
       /\ k \in DOMAIN cycle'.unsub
       /\ cycle'.unsub[k] = "ok"

C3_UnsubscribeFailure == [][C3_Step]_vars

\* C4: every call of toUnsubscribe and toSubscribe is issued whatever the
\* other calls' outcomes, what is recorded for a key depends on that key's
\* own outcome only, and the cycle does not raise.
C4_Step ==
  lastOp' = "discover" =>
    LET S2 == IF cycle'.resp.kind = "list" THEN Range(SelectLive(cycle'.resp.matches)) ELSE {}
        cur == Range(currentLiveMatches)
        subs == subscribedMatches
    IN /\ ~cycle'.raised
       /\ (impl = "LiveMatchesWebhook" /\ cycle'.resp.kind = "list") =>
            /\ DOMAIN cycle'.unsub = cur \ S2
            /\ DOMAIN cycle'.sub = {k \in S2 : k \notin cur \/ k \notin subs}
            /\ \A k \in DOMAIN cycle'.unsub :
                 k \in subscribedMatches' <=> (k \in subs /\ cycle'.unsub[k] # "ok")
            /\ \A k \in DOMAIN cycle'.sub :
                 k \in subscribedMatches' <=> (k \in subs \/ cycle'.sub[k] # "fail")
       /\ (impl = "LiveMatchesWebHookPoller" /\ useWebhookScorecards
           /\ cycle'.resp.kind # "throw") =>
            /\ DOMAIN cycle'.unsub = subs \ S2
            /\ DOMAIN cycle'.sub = S2 \ subs
            /\ \A k \in DOMAIN cycle'.unsub : k \notin subscribedMatches'
            /\ \A k \in DOMAIN cycle'.sub : k \in subscribedMatches'

C4_FailureIsolation == [][C4_Step]_vars

C4_Witness ==
  /\ lastOp = "discover"
  /\ impl = "LiveMatchesWebhook"
  /\ \E j, k \in DOMAIN cycle.unsub :
       /\ j < k
       /\ cycle.unsub[j] = "fail" /\ cycle.unsub[k] = "ok"
       /\ j \in subscribedMatches /\ k \notin subscribedMatches

\* C5: a cycle whose candidate list is empty or absent issues unsubscribe
\* for every key of the subscribed set.
C5_Step ==
  (/\ lastOp' = "discover"
   /\ \/ cycle'.resp.kind \in {"empty", "absent"}
      \/ cycle'.resp.kind = "list" /\ cycle'.resp.matches = <<>>)
  => DOMAIN cycle'.unsub = subscribedMatches

C5_EmptyUnsubscribesAll == [][C5_Step]_vars

\* C6: a cycle whose candidate-list request throws changes neither the
\* Selection Set, nor the 'live_matches_keys' entry, nor the subscribed set,
\* issues no provider call and does not raise.
C6_Step ==
  (lastOp' = "discover" /\ cycle'.resp.kind = "throw")
  => /\ currentLiveMatches' = currentLiveMatches
     /\ liveKeysCache' = liveKeysCache
     /\ subscribedMatches' = subscribedMatches
     /\ cycle'.unsub = NoCalls /\ cycle'.sub = NoCalls
     /\ ~cycle'.raised

C6_ThrowSkipsCycle == [][C6_Step]_vars

C6_Witness ==
  /\ lastOp = "discover"
  /\ cycle.resp.kind = "throw"
  /\ impl = "LiveMatchesWebhook"
  /\ currentLiveMatches # <<>>
  /\ subscribedMatches # {}
  /\ liveKeysCache.present

\* C7: the Selection Set a cycle produces from a candidate list is the first
\* TopN started events in upstream order: the j-th key is the key of the
\* entry that has status started and exactly j-1 started entries before it.
LiveIdx(ms) == {i \in 1..Len(ms) : ms[i].status = "started"}

C7_FirstFiveLive ==
  (lastOp = "discover" /\ cycle.resp.kind = "list") =>
    LET ms == cycle.resp.matches
        live == LiveIdx(ms)
    IN /\ Len(currentLiveMatches) = Min(TopN, Cardinality(live))
       /\ \A j \in 1..Len(currentLiveMatches) :
            \E i \in live :
              /\ Cardinality({h \in live : h < i}) = j - 1
              /\ ms[i].key = currentLiveMatches[j]

C7_Witness ==
  /\ lastOp = "discover"
  /\ cycle.resp.kind = "list"
  /\ Cardinality(LiveIdx(cycle.resp.matches)) > TopN
  /\ Len(currentLiveMatches) = TopN
  /\ cycle.resp.matches[1].status # "started"
  /\ currentLiveMatches[1] > currentLiveMatches[2]

\* ---------------------------------------------------------------- ingestion claims
Handled == lastOp = "ingest"
Authenticated == ingest.req.header = apiKey
NoEffects == ingest.sets = {} /\ ingest.pushed = {} /\ ingest.upserts = {}
Rejected401 ==
  /\ ingest.status = 401
  /\ ingest.responses = 1
  /\ ~ingest.unzip
  /\ ~ingest.parse
  /\ NoEffects
\* The body is what the router decodes: compressed JSON where it decompresses,
\* JSON text where it parses the raw body.
WellFormed ==
  IF route = "routes/webhook.js" /\ ingest.req.encoding # "gzip"
  THEN ingest.req.body.form = "json"
  ELSE ingest.req.body.form = "zip_json"

\* C8 (as stated): a request whose shared-secret header does not equal the
\* configured value is answered 401 and causes no decompression, no parsing, no
\* cache write, no store write and no publish.
C8_Log == Handled /\ ingest.req.header # apiKey => Rejected401
C8_Step ==
  lastOp' = "ingest" /\ ingest'.req.header # apiKey
    => UNCHANGED <<matchCache, scorecardCache, store>>
C8_MismatchRejected == [](C8_Log) /\ [][C8_Step]_vars

\* C8 (amended): when a shared secret is configured, a request whose header does
\* not equal it is answered 401 and causes no decompression, no parsing, no cache
\* write, no store write and no publish.
C8_ConfiguredLog ==
  Handled /\ apiKey # "unset" /\ ingest.req.header # apiKey => Rejected401
C8_ConfiguredStep ==
  lastOp' = "ingest" /\ apiKey # "unset" /\ ingest'.req.header # apiKey
    => UNCHANGED <<matchCache, scorecardCache, store>>
C8_ConfiguredMismatchRejected == [](C8_ConfiguredLog) /\ [][C8_ConfiguredStep]_vars

\* A keyed, decodable payload with the wrong secret is turned away while an
\* earlier ingestion of the same key is still cached.
C8_Witness ==
  /\ Handled
  /\ apiKey = "secret"
  /\ ingest.req.header = "wrong"
  /\ WellFormed
  /\ ingest.req.body.payload.shape \in KeyedShapes
  /\ matchCache[ingest.req.body.payload.k].present
  /\ ingest.status = 401

\* C9: an authenticated, well-formed payload with no event key, bare or under a
\* 'data' envelope, is acknowledged 200 and causes no cache write, no store write
\* and no publish.
C9_NoKeyAcknowledged ==
  /\ Handled
  /\ Authenticated
  /\ WellFormed
  /\ ingest.req.body.payload.shape = "empty"
  => ingest.status = 200 /\ ingest.responses = 1 /\ NoEffects

\* C10: an authenticated request whose body fails decompression or parsing is
\* answered 400 with no cache write, store write or publish; every request gets
\* exactly one response, with status 401, 400, 200 or 500.
C10_InvalidPayloadAnswered ==
  Handled =>
    /\ Authenticated /\ ~WellFormed => ingest.status = 400 /\ NoEffects
    /\ ingest.responses = 1
    /\ ingest.status \in {401, 400, 200, 500}

\* The request passed the key check, or none is configured.
PassedAuth == apiKey = "unset" \/ ingest.req.header = apiKey
\* The key the router files the payload under.
EventKeyOf(p) ==
  IF route = "routes/webhook.js" THEN PropMatchKey(p)
  ELSE IF p.shape = "data_key" THEN p.k
  ELSE IF PropKey(p) # Undefined THEN PropKey(p) ELSE PropMatchKey(p)

\* C11: once a request has passed the auth, decompression and parse gates and
\* carries an event key, a failing cache write, publish or store upsert is
\* swallowed: the answer is 200, and a failed upsert leaves the cache writes and
\* the publish made before it in place.
C11_Log ==
  /\ Handled
  /\ PassedAuth
  /\ WellFormed
  /\ ingest.req.body.payload.shape \in KeyedShapes
  => /\ ingest.status = 200
     /\ ingest.responses = 1
     /\ alive
     /\ ingest.fault = "upsert" =>
          LET k == EventKeyOf(ingest.req.body.payload)
          IN  /\ ingest.sets = {<<"match", k>>, <<"scorecard-detailed", k>>}
              /\ ingest.pushed = {k}
              /\ isConnected => matchCache[k].present /\ scorecardCache[k].present
C11_Step ==
  lastOp' = "ingest" /\ ingest'.fault = "upsert" => store' = store
C11_FailuresSwallowed == [](C11_Log) /\ [][C11_Step]_vars

\* A store upsert failed on a connected cache: 200, both entries written, no document.
C11_Witness ==
  /\ Handled
  /\ PassedAuth
  /\ WellFormed
  /\ ingest.req.body.payload.shape \in KeyedShapes
  /\ ingest.fault = "upsert"
  /\ isConnected
  /\ ingest.status = 200
  /\ \E k \in EventKeys :
       matchCache[k].present /\ scorecardCache[k].present /\ ~store[k].present

\* The step delivers again the request handled last, every write of both succeeding.
Redelivered ==
  /\ lastOp = "ingest"
  /\ lastOp' = "ingest"
  /\ now' = now
  /\ ingest'.repeat
  /\ ingest.fault = "none"
  /\ ingest'.fault = "none"

\* C12 (as stated): re-ingesting an identical payload leaves the two cache
\* entries of the event and its store document identical to their state after
\* the first ingestion.
C12_Step ==
  Redelivered =>
    LET k == EventKeyOf(ingest.req.body.payload)
    IN  /\ matchCache'[k] = matchCache[k]
        /\ scorecardCache'[k] = scorecardCache[k]
        /\ store'[k] = store[k]
C12_ContentStep ==
  Redelivered =>
    LET k == EventKeyOf(ingest.req.body.payload)
    IN  /\ matchCache' = matchCache
        /\ scorecardCache' = scorecardCache
        /\ store[k].present
        /\ store'[k] = [store[k] EXCEPT !.last_updated = now]
        /\ \A j \in CacheKeys \ {k} : store'[j] = store[j]
Published == lastOp = "hub" /\ hub.op = "publish"
InGroup(map, s, k) == Has(map, k) /\ s \in map[k]
Subscribers(k) == {s \in Sockets : <<s, k>> \in joined}

\* C13: pushScorecardUpdate emits nothing when the group of the key is absent or
\* empty; it emits only when the group holds at least one socket.
C13_NoEmitWithoutGroup ==
  Published =>
    /\ (~Has(connectedClients, hub.key) \/ connectedClients[hub.key] = {})
         => hub.emits = 0 /\ hub.delivered = NoDelivery
    /\ Subscribers(hub.key) = {} => hub.emits = 0 /\ hub.delivered = NoDelivery
    /\ hub.emits > 0 => Has(connectedClients, hub.key) /\ connectedClients[hub.key] # {}

\* The hub serves another key, and a publish for a key nobody joined emitted nothing.
C13_Witness ==
  /\ Published
  /\ io
  /\ hub.emits = 0
  /\ ~Has(connectedClients, hub.key)
  /\ \E k \in Keys : Has(connectedClients, k)

\* C14: after any interleaving of joins of two sockets to a key, repeated or not,
\* one publish for the key reaches each of them exactly once.
C14_EachOnce ==
  Published =>
    /\ \A s \in Subscribers(hub.key) : hub.delivered[s] = 1
    /\ \A s \in Sockets : hub.delivered[s] <= 1

C14_Witness ==
  /\ Published
  /\ \E a, b \in Sockets :
       /\ a # b
       /\ {a, b} \subseteq Subscribers(hub.key)
       /\ hub.delivered[a] = 1
       /\ hub.delivered[b] = 1

\* C15: after handleDisconnection the socket is in no group and receives no
\* later update; the membership of every other socket is unchanged.
C15_Gone ==
  \A s \in Sockets \ sockets :
    /\ \A k \in Keys : ~InGroup(connectedClients, s, k)
    /\ Published => hub.delivered[s] = 0
C15_Step ==
  lastOp' = "hub" /\ hub'.op = "disconnect" =>
    \A t \in Sockets \ {hub'.socket} : \A k \in Keys :
      InGroup(connectedClients', t, k) <=> InGroup(connectedClients, t, k)
C15_DisconnectRemoves == [](C15_Gone) /\ [][C15_Step]_vars

\* A socket that had joined every key disconnected; another socket keeps its group.
C15_Witness ==
  /\ lastOp = "hub"
  /\ hub.op = "disconnect"
  /\ hub.left = Keys
  /\ \E t \in sockets, k \in Keys : InGroup(connectedClients, t, k)

\* C16: a group exists in connectedClients for a key if and only if at least one
\* socket is joined to it; no empty group stays in the map.
C16_GroupIffJoined ==
  /\ DOMAIN connectedClients = {k \in Keys : Subscribers(k) # {}}
  /\ \A k \in DOMAIN connectedClients : connectedClients[k] = Subscribers(k)

\* The last member left and the group is gone while another group remains.
C16_Witness ==
  /\ lastOp = "hub"
  /\ hub.op \in {"unsubscribe", "disconnect"}
  /\ hub.left # {}
  /\ \A k \in hub.left : ~Has(connectedClients, k)
  /\ connectedClients # NoGroups

\* ------------------------------------------------------------ cache wrapper claims
\* The store answered the get of the last call.
Reachable == cache.connected /\ cache.getOk

\* C17: whenever the key holds a present, unexpired cached value, whatever
\* that value is, and the store answers, fetchWithCache does not invoke
\* fetchFn and returns the cached value.
C17_HitSkipsCompute ==
  (cache.op = "fetchWithCache" /\ Reachable /\ cache.had.present) =>
    /\ cache.invoked = 0
    /\ ~cache.raised
    /\ cache.value = JSONparse(cache.had.val)

\* The store was unreachable throughout the last call: the wrapper was not
\* connected, or no call on the client answered.
Unreachable == ~cache.connected \/ (~cache.getOk /\ ~cache.setOk)

\* C18: while the store is unreachable, get returns a miss, set and delete
\* return false, none of them raises, and fetchWithCache invokes fetchFn and
\* returns exactly its result (or raises what it raised), whatever the state
\* of the client.
C18_Degrades ==
  Unreachable =>
    /\ cache.op \in {"get", "set", "delete"} => ~cache.raised
    /\ cache.op = "get" => cache.value = Null
    /\ cache.op \in {"set", "delete"} => ~cache.ok
    /\ cache.op = "fetchWithCache" =>
         /\ cache.invoked = 1
         /\ cache.raised <=> cache.fetchFn = Throws
         /\ ~cache.raised => cache.value = cache.fetchFn
    /\ cache.op # "none" /\ lastOp = "cache" => kv = cache.had

\* A value was cached, the connection was lost, and fetchWithCache returned
\* what fetchFn computed while the client was reconnecting.
C18_Witness ==
  /\ cache.op = "fetchWithCache"
  /\ cache.client = "reconnecting"
  /\ cache.had.present
  /\ cache.invoked = 1
  /\ cache.value = cache.fetchFn
  /\ cache.fetchFn = JsonValue("object_b")

\* ------------------------------------------------------------ read path claims
ReadOps == {"getMatchDetails", "getMatchScorecardDetailed"}

\* C19: when the Tier A entry of the requested key is present and unexpired
\* (and Redis answers), getMatchDetails and getMatchScorecardDetailed respond
\* with it and consult neither the durable store nor the origin.
C19_ServedFromTierA ==
  (read.op \in ReadOps /\ read.connected /\ read.getOk /\ read.had.present) =>
    /\ read.body = JSONparse(read.had.val)
    /\ read.consulted \cap {"store", "origin"} = {}

\* The TTLs the status table allows.
TableTTL(status) ==
  CASE status = "started" -> 10..30
    [] status = "not_started" -> {900}
    [] status = "completed" -> {86400}
    [] OTHER -> {REDIS_TTL_SHORT}

\* C20: every write of an Event or its Detailed Update to Tier A by the read
\* handlers uses the TTL of the status table: Live 10-30 s, NotStarted 15 min,
\* Completed 1 day, any other status the short default.
C20_TableTTL ==
  (read.op \in ReadOps /\ read.wrote) => read.ttl \in TableTTL(read.of)

\* ------------------------------------------------------------ origin client claims
\* The last makeRequest wrote a response that carried a cache hint.
WroteHinted ==
  /\ request.op = "makeRequest"
  /\ request.wrote
  /\ request.hint # NoHint

\* The TTL a hint stands for: the time left to its expiry, else its max-age.
HintTTL(hint, currentMs) ==
  IF hint.expires # 0 THEN (hint.expires * 1000 - currentMs) \div 1000
  ELSE hint.max_age

\* C21: whenever a response that makeRequest caches carries a cache hint
\* (an expiry timestamp or a max-age), the TTL of the cache write is the one
\* derived from the hint and not the caller's cacheTTL.
C21_HintOverrides ==
  WroteHinted =>
    /\ request.ttl = HintTTL(request.hint, request.currentMs)
    /\ request.ttl # request.cacheTTL

\* The first attempt of the last makeRequest ended in a 401.
AuthFailed == request.op = "makeRequest" /\ request.first = "401"

\* C22 (as stated): a 401 triggers exactly one forced refresh followed by exactly
\* one retry; a failed retry is thrown on; at most two origin requests and one
\* forced refresh per call; any other failure is thrown on without a retry.
C22_RefreshThenRetry ==
  /\ AuthFailed => (request.refreshes = 1 /\ request.retries = 1)
  /\ request.retry \in {"401", "error"} => (request.raised /\ request.error = request.retry)
  /\ request.requests <= 2 /\ request.refreshes <= 1
  /\ request.first = "error" =>
       (request.raised /\ request.refreshes = 0 /\ request.retries = 0)

\* C22 (amended): a 401 triggers exactly one forced refresh; when the refresh
\* succeeds exactly one retry follows, and when it fails its failure is thrown
\* on without a retry; the rest as stated.
C22_RefreshThenRetryIfRefreshed ==
  /\ AuthFailed => request.refreshes = 1
  /\ (AuthFailed /\ request.refreshed) => request.retries = 1
  /\ (AuthFailed /\ ~request.refreshed) => (request.raised /\ request.retries = 0)
  /\ request.retry \in {"401", "error"} => (request.raised /\ request.error = request.retry)
  /\ request.requests <= 2 /\ request.refreshes <= 1
  /\ request.first = "error" =>
       (request.raised /\ request.refreshes = 0 /\ request.retries = 0)

\* A request answered 401, the token was refreshed, and the retry answered 401
\* again: two origin requests, one refresh, the second 401 thrown on.
C22_Witness ==
  /\ AuthFailed
  /\ request.requests = 2
  /\ request.refreshes = 1
  /\ request.retry = "401"
  /\ request.raised

\* C30: every discovery cycle obtains the candidate list by a request to the
\* origin itself: when the origin answers with a list, the response the cycle
\* works on is that list, and the Selection Set after the cycle is the
\* selection made from it.
C30_FreshCandidates ==
  [][lastOp' = "discover" /\ upstream.kind = "list"
       => /\ cycle'.resp = upstream
          /\ currentLiveMatches' = SelectLive(upstream.matches)]_vars

\* C26: buildDetailedScorecard never raises, whatever the shape of its
\* argument: when a statement inside it fails, it returns a Detailed Update
\* with the error marker and an empty innings list.
C26_NeverRaises ==
  build.called =>
    /\ ~build.result.raised
    /\ build.result.value.error => build.result.value.innings = <<>>

\* C27: when the process shuts down, an unsubscribe call has been attempted
\* for every key that was in Subscription State.
C27_UnsubscribeAllOnExit ==
  exited.done => exited.unsubscribed = exited.held

\* A poll has just observed, for a match it tracks, a status other than Live.
ObservedNotLive ==
  /\ lastOp = "poll"
  /\ poll.answer = "data"
  /\ poll.status # "started"

\* C29: when a poll of a tracked match observes a status other than Live, the
\* key leaves the polled set and the observation writes nothing to Tier A or to
\* the store and publishes nothing; a key outside the polled set comes back
\* only by a discovery cycle that selects it, and only keys of the polled set
\* are polled.
C29_NotLiveDropped ==
  [][/\ ObservedNotLive' =>
          /\ poll'.key \notin Range(currentLiveMatches')
          /\ poll'.dropped
          /\ poll'.sets = {} /\ ~poll'.pushed /\ ~poll'.upserts
          /\ matchCache' = matchCache
          /\ scorecardCache' = scorecardCache
          /\ store' = store
          /\ hub' = hub
     /\ \A k \in Keys :
          k \notin Range(currentLiveMatches) /\ k \in Range(currentLiveMatches')
            => lastOp' = "discover" /\ k \in Range(SelectLive(cycle'.resp.matches))
     /\ pending' \ pending \subseteq Range(currentLiveMatches)]_vars

\* A tracked match was polled while Live (written, published, stored), then
\* observed completed and dropped.
C29_Witness ==
  /\ ObservedNotLive
  /\ poll.status = "completed"
  /\ store[poll.key].present
  /\ matchCache[poll.key].present
  /\ poll.key \notin Range(currentLiveMatches)
  /\ currentLiveMatches # <<>>

\* The Detailed Update the read path derives from a match payload.
ScorecardOf(payload) ==
  [match_key |-> payload.key, match_status |-> payload.status,
   innings |-> payload.innings]

\* The step wrote a new payload under 'match:<k>'.
WroteMatch(k) ==
  /\ matchCache'[k] # matchCache[k]
  /\ matchCache'[k].present

\* C28: whenever 'match:<key>' is written with a new payload, the entry
\* 'scorecard-detailed:<key>' is rebuilt from that payload in the same
\* operation: after the write the two entries derive from the same payload.
C28_WrittenTogether ==
  [][\A k \in EventKeys :
       WroteMatch(k) =>
         /\ scorecardCache'[k].present
         /\ JSONparse(scorecardCache'[k].val).data
              = ScorecardOf(JSONparse(matchCache'[k].val).data)]_vars

\* C25: a read for a key the durable store knows never ends in a hard error:
\* a hard error is returned only when the key is unknown to the store (and to
\* cache and origin).
C25_NoHardErrorWhenStored ==
  [][lastOp' = "read" /\ read'.status = 500 => ~store[read'.key].present]_vars

\* C23: once an Event was ingested with status Live and later with status
\* Completed, no read of it fetches from the origin: it is served from Tier A
\* or from the durable store.
C23_CompletedServedLocally ==
  [][lastOp' = "read" /\ life[read'.key] = "completed"
       => "origin" \notin read'.consulted]_vars

Terminal == {"completed", "abandoned", "cancelled"}

\* C24: once the stored status of a key is terminal, its stored raw payload
\* changes at most to another terminal payload, a Live payload delivered late
\* leaves it alone, and no read of the key fetches from the origin.
C24_TerminalFrozen ==
  [][\A k \in EventKeys :
       store[k].present /\ store[k].status \in Terminal
         => /\ store'[k].raw_data # store[k].raw_data
                => store'[k].status \in Terminal
            /\ lastOp' = "read" /\ read'.key = k
                => "origin" \notin read'.consulted]_vars

\* C31: at most one batch of pollDetailedScorecards is in progress (a tick
\* during a batch starts nothing); a poll that fails takes only its own match
\* out of the batch, the other matches stay to be polled; the batch ends only
\* when every poll has settled, and isPolling is then released.
C31_OneBatch ==
  /\ [][/\ pending' \ pending # {} => ~isPolling /\ pending = {} /\ isPolling'
        /\ lastOp' = "poll" /\ poll'.answer = "throw"
             => pending' = pending \ {poll'.key} /\ isPolling' = isPolling
        /\ isPolling /\ ~isPolling' => pending = {}]_vars
  /\ (isPolling ~> ~isPolling)

\* One poll of a batch has failed while another match of the batch is still
\* to be polled.
C31_Witness ==
  /\ isPolling
  /\ lastOp = "poll"
  /\ poll.answer = "throw"
  /\ pending # {}

\* C32: for every payload, the Detailed Update the webhook ingestion handler
\* builds is the one the poller's buildDetailedScorecard builds.
C32_SameNormalizer ==
  build.called => build.webhook = build.result

\* C39: every writer of the entry 'match:<key>' stores the raw Event under a
\* 'data' envelope, so a reader of value.data.status finds the envelope
\* whichever writer wrote last.
C39_SameEnvelope ==
  \A k \in CacheKeys : matchCache[k].present => matchCache[k].val.envelope

\* ------------------------------------------------- rate-limited request queue
Others ==
  <<discVars, ingestVars, hubVars, tierVars, originVars, jobVars, lifeVars>>

\* The request starts now: the clock counts it in its tick and its second.
Started(w) == [w EXCEPT !.starts = @ + 1, !.second = @ + 1]

\* (the loop without the test of requestsThisSecond)
WhileLoop_noLimit(q, loops) ==
  IF q = <<>>
  THEN /\ isProcessingQueue' = FALSE
       /\ worker' = [Idle EXCEPT !.loops = loops - 1]
       /\ requestQueue' = q
       /\ UNCHANGED <<requestsThisSecond, sameSecond, wall, startOrder>>
  ELSE /\ isProcessingQueue' = TRUE
       /\ sameSecond' = TRUE
       /\ requestQueue' = Tail(q)
       /\ requestsThisSecond' = (IF sameSecond THEN requestsThisSecond ELSE 0) + 1
       /\ worker' = [pc |-> "request", id |-> Head(q), loops |-> loops]
       /\ wall' = Started(wall)
       /\ startOrder' = Append(startOrder, Head(q))

\* processQueue from the test of its while loop up to the next await, with
\* the queue q: the loop ends and releases isProcessingQueue, or reads the
\* clock (a new second resets the count), then sleeps into the next second
\* when 5 requests were started in this one, or shifts the oldest request
\* and starts it.
WhileLoop(q, loops) ==
  LET count == IF sameSecond THEN requestsThisSecond ELSE 0
  IN IF q = <<>>
     THEN /\ isProcessingQueue' = FALSE
          /\ worker' = [Idle EXCEPT !.loops = loops - 1]
          /\ requestQueue' = q
          /\ UNCHANGED <<requestsThisSecond, sameSecond, wall, startOrder>>
     ELSE /\ isProcessingQueue' = TRUE
          /\ sameSecond' = TRUE
          /\ IF count >= MaxPerSecond
             THEN /\ worker' = [pc |-> "sleepSecond", id |-> 0, loops |-> loops]
                  /\ requestQueue' = q
                  /\ requestsThisSecond' = count
                  /\ UNCHANGED <<wall, startOrder>>
             ELSE /\ requestQueue' = Tail(q)
                  /\ requestsThisSecond' = count + 1
                  /\ worker' = [pc |-> "request", id |-> Head(q), loops |-> loops]
                  /\ wall' = Started(wall)
                  /\ startOrder' = Append(startOrder, Head(q))

\* rateLimitedRequest: push the request, call processQueue, which returns at
\* once while a loop runs and becomes the loop otherwise.
RateLimitedRequest ==
  /\ \E r \in RequestIds :
       /\ ~promises[r].made
       /\ \A o \in RequestIds : o < r => promises[o].made
       /\ promises' = [promises EXCEPT ![r].made = TRUE]
       /\ LET q == Append(requestQueue, r)
          IN IF isProcessingQueue
             THEN /\ requestQueue' = q
                  /\ UNCHANGED <<isProcessingQueue, requestsThisSecond, sameSecond,
                                 worker, wall, startOrder>>
             ELSE WhileLoop(q, worker.loops + 1)
  /\ lastOp' = "enqueue"
  /\ UNCHANGED Others
  /\ UNCHANGED <<socketVars, overlapVars, flightVars>>

\* (a catch block that logs and does not reject)
Response_swallow(ok) ==
  /\ worker.pc = "request"
  /\ promises' = [promises EXCEPT ![worker.id].resolved = IF ok THEN @ + 1 ELSE @]
  /\ IF requestQueue # <<>>
     THEN /\ worker' = [worker EXCEPT !.pc = "sleep50", !.id = 0]
          /\ UNCHANGED <<requestQueue, isProcessingQueue, requestsThisSecond,
                         sameSecond, wall, startOrder>>
     ELSE WhileLoop(requestQueue, worker.loops)
  /\ lastOp' = IF ok THEN "resolve" ELSE "reject"
  /\ UNCHANGED Others
  /\ UNCHANGED <<socketVars, overlapVars, flightVars>>

\* The awaited apiClient call settles: resolve(response.data) or, in the
\* catch block, reject(error); then sleep(50) when requests wait, and the
\* while test.
Response(ok) ==
  /\ worker.pc = "request"
  /\ promises' = [promises EXCEPT ![worker.id].resolved = IF ok THEN @ + 1 ELSE @,
                                  ![worker.id].rejected = IF ok THEN @ ELSE @ + 1]
  /\ IF requestQueue # <<>>
     THEN /\ worker' = [worker EXCEPT !.pc = "sleep50", !.id = 0]
          /\ UNCHANGED <<requestQueue, isProcessingQueue, requestsThisSecond,
                         sameSecond, wall, startOrder>>
     ELSE WhileLoop(requestQueue, worker.loops)
  /\ lastOp' = IF ok THEN "resolve" ELSE "reject"
  /\ UNCHANGED Others
  /\ UNCHANGED <<socketVars, overlapVars, flightVars>>

\* sleep(50) is over (a timer fires no earlier than asked, at any later time).
Wake50 ==
  /\ worker.pc = "sleep50"
  /\ WhileLoop(requestQueue, worker.loops)
  /\ lastOp' = "wake"
  /\ UNCHANGED promises
  /\ UNCHANGED Others
  /\ UNCHANGED <<socketVars, overlapVars, flightVars>>

\* sleep(1000 - (Date.now() % 1000) + 10) is over: the next second has begun.
WakeSecond ==
  /\ worker.pc = "sleepSecond"
  /\ ~sameSecond
  /\ WhileLoop(requestQueue, worker.loops)
  /\ lastOp' = "wake"
  /\ UNCHANGED promises
  /\ UNCHANGED Others
  /\ UNCHANGED <<socketVars, overlapVars, flightVars>>

\* A tick of the wall clock passes; every TicksPerSecond ticks a new second
\* begins.
TimePasses ==
  /\ LET t == (wall.tick + 1) % TicksPerSecond
     IN /\ wall' = [tick |-> t, starts |-> 0, before |-> wall.starts,
                    second |-> IF t = 0 THEN 0 ELSE wall.second]
        /\ sameSecond' = IF t = 0 THEN FALSE ELSE sameSecond
  /\ lastOp' = "tick"
  /\ UNCHANGED <<requestQueue, isProcessingQueue, requestsThisSecond, worker,
                 promises, startOrder>>
  /\ UNCHANGED Others
  /\ UNCHANGED <<socketVars, overlapVars, flightVars>>

NextQueue ==
  \/ RateLimitedRequest
  \/ Response(TRUE)
  \/ Response(FALSE)
  \/ Wake50
  \/ WakeSecond
  \/ TimePasses

\* Responses arrive, timers fire and time passes.
SpecQueue ==
  /\ InitHub
  /\ [][NextQueue]_vars
  /\ WF_vars(Response(TRUE) \/ Response(FALSE))
  /\ WF_vars(Wake50)
  /\ WF_vars(WakeSecond)
  /\ WF_vars(TimePasses)

C38_QueueServed ==
  /\ [](worker.loops <= 1)
  /\ [](\A i \in 1..Len(startOrder) : startOrder[i] = i)
  /\ [](\A r \in RequestIds : promises[r].resolved + promises[r].rejected <= 1)
  /\ \A r \in RequestIds :
       promises[r].made ~> (promises[r].resolved + promises[r].rejected = 1)

\* A request that followed a failed one has been resolved, and the loop has
\* ended.
C38_Witness ==
  \E r \in RequestIds :
    /\ r > 1
    /\ promises[r - 1].rejected = 1
    /\ promises[r].resolved = 1
    /\ worker.pc = "idle"

\* ------------------------------------------------------------- SocketService
\* services/clientSocketService.js: rooms 'match:<key>', activeMatchKeys and
\* the setInterval handles of updateIntervals.
MaxTimers == 2
MaxTimeouts == 1
FetchOutcomes == {"started", "completed", "fail"}

\* stopMatchUpdates: clearInterval of the stored handle, if there is one.
stopMatchUpdates(k) ==
  IF k \in updateIntervals
  THEN /\ timers' = [timers EXCEPT ![k] = @ - 1]
       /\ updateIntervals' = updateIntervals \ {k}
  ELSE UNCHANGED <<timers, updateIntervals>>

\* checkAndCleanupMatch for every key of ks, the rooms being r.
checkAndCleanupMatch(ks, r) ==
  LET empty == {k \in ks : r[k] = {}}
      cleared == empty \cap updateIntervals
  IN /\ timers' = [k \in EventKeys |-> IF k \in cleared THEN timers[k] - 1 ELSE timers[k]]
     /\ updateIntervals' = updateIntervals \ cleared
     /\ activeMatchKeys' = activeMatchKeys \ empty

SocketDone(op) ==
  /\ svc' = op
  /\ lastOp' = "socket"
  /\ UNCHANGED Others
  /\ UNCHANGED <<queueVars, overlapVars, flightVars>>

\* handleMatchSubscription: join the room; the first subscriber of a match
\* not in activeMatchKeys adds it and calls startMatchUpdates, whose first
\* step is the initial fetch.
SubscribeMatch ==
  \E s \in Sockets, k \in EventKeys :
    /\ k \in activeMatchKeys \/ timers[k] + fetching[k] < MaxTimers
    /\ matchRooms' = [matchRooms EXCEPT ![k] = @ \cup {s}]
    /\ IF k \notin activeMatchKeys
       THEN /\ activeMatchKeys' = activeMatchKeys \cup {k}
            /\ fetching' = [fetching EXCEPT ![k] = @ + 1]
       ELSE UNCHANGED <<activeMatchKeys, fetching>>
    /\ UNCHANGED <<updateIntervals, timers, stopTimeouts>>
    /\ SocketDone("subscribe_match")

\* handleMatchUnsubscription: leave the room, then checkAndCleanupMatch.
UnsubscribeMatch ==
  \E s \in Sockets, k \in EventKeys :
    /\ s \in matchRooms[k]
    /\ LET r == [matchRooms EXCEPT ![k] = @ \ {s}]
       IN /\ matchRooms' = r
          /\ checkAndCleanupMatch({k}, r)
    /\ UNCHANGED <<fetching, stopTimeouts>>
    /\ SocketDone("unsubscribe_match")

\* cleanupSubscriptions on 'disconnect': leave every room of the socket and
\* checkAndCleanupMatch each.
DisconnectSocket ==
  \E s \in Sockets :
    /\ \E k \in EventKeys : s \in matchRooms[k]
    /\ LET r == [k \in EventKeys |-> matchRooms[k] \ {s}]
       IN /\ matchRooms' = r
          /\ checkAndCleanupMatch({k \in EventKeys : s \in matchRooms[k]}, r)
    /\ UNCHANGED <<fetching, stopTimeouts>>
    /\ SocketDone("disconnect")

\* The initial fetch of startMatchUpdates settles. Fulfilled: emit, a
\* completed match arms the 5-minute setTimeout, and .then stores a new
\* setInterval handle under the key. Rejected: .catch logs.
FetchSettled ==
  \E k \in EventKeys, o \in FetchOutcomes :
    /\ fetching[k] > 0
    /\ fetching' = [fetching EXCEPT ![k] = @ - 1]
    /\ IF o = "fail"
       THEN UNCHANGED <<timers, updateIntervals, stopTimeouts>>
       ELSE /\ timers' = [timers EXCEPT ![k] = @ + 1]
            /\ updateIntervals' = updateIntervals \cup {k}
            /\ stopTimeouts' = [stopTimeouts EXCEPT ![k] =
                 IF o = "completed" THEN Min(@ + 1, MaxTimeouts) ELSE @]
    /\ UNCHANGED <<matchRooms, activeMatchKeys>>
    /\ SocketDone("fetch_" \o o)

\* A setInterval timer fires: fetchAndEmitMatchData; a completed match arms
\* the 5-minute setTimeout again.
IntervalFires ==
  \E k \in EventKeys, o \in FetchOutcomes :
    /\ timers[k] > 0
    /\ stopTimeouts' = [stopTimeouts EXCEPT ![k] =
         IF o = "completed" THEN Min(@ + 1, MaxTimeouts) ELSE @]
    /\ UNCHANGED <<matchRooms, activeMatchKeys, updateIntervals, timers, fetching>>
    /\ SocketDone("interval_" \o o)

\* The 5-minute setTimeout of a completed match fires: stopMatchUpdates.
StopTimeoutFires ==
  \E k \in EventKeys :
    /\ stopTimeouts[k] > 0
    /\ stopTimeouts' = [stopTimeouts EXCEPT ![k] = @ - 1]
    /\ stopMatchUpdates(k)
    /\ UNCHANGED <<matchRooms, activeMatchKeys, fetching>>
    /\ SocketDone("stop_timeout")

NextSocket ==
  \/ SubscribeMatch
  \/ UnsubscribeMatch
  \/ DisconnectSocket
  \/ FetchSettled
  \/ IntervalFires
  \/ StopTimeoutFires

\* Every fetch settles.
SpecSocket ==
  /\ InitHub
  /\ [][NextSocket]_vars
  /\ WF_vars(FetchSettled)

\* C36: for any interleaving of subscribe, unsubscribe, disconnect and the
\* completion of the initial fetch, at most one timer runs per match, and a
\* timer runs for a match only while its room has a subscriber.
C36_TimerOnlyWhileSubscribed ==
  \A k \in EventKeys :
    /\ timers[k] <= 1
    /\ timers[k] > 0 => matchRooms[k] # {}

\* C37: a match that keeps at least one subscriber eventually has periodic
\* updates running and keeps them, also when the initial fetch failed and
\* when a later client subscribes to a match already in activeMatchKeys.
C37_UpdatesWhileSubscribed ==
  \A k \in EventKeys :
    <>[](matchRooms[k] # {}) => <>[](timers[k] > 0)

\* ----------------------------------------- discovery runs, await by await
\* LiveMatchesWebhook.discoverLiveMatches as the steps between its awaits, so
\* that the initial run and a cron tick (or two ticks) can overlap.

\* After an await of updateSubscriptions: the next call of the unsubscribe
\* loop, else of the subscribe loop, else the return to discoverLiveMatches,
\* which assigns this.currentLiveMatches = newLiveMatches.
Advance(c, r) ==
  IF r.unsub # <<>>
  THEN /\ discoveries' = [discoveries EXCEPT ![c] = [r EXCEPT !.pc = "unsub"]]
       /\ UNCHANGED currentLiveMatches
  ELSE IF r.sub # <<>>
  THEN /\ discoveries' = [discoveries EXCEPT ![c] = [r EXCEPT !.pc = "sub"]]
       /\ UNCHANGED currentLiveMatches
  ELSE /\ discoveries' = [discoveries EXCEPT ![c] = NoRun]
       /\ currentLiveMatches' = r.new

RunDone ==
  /\ lastOp' = "run"
  /\ UNCHANGED <<impl, useWebhookScorecards, isConnected, featuredCache, cycle>>
  /\ UNCHANGED <<ingestVars, hubVars, tierVars, originVars, jobVars, lifeVars>>
  /\ UNCHANGED <<queueVars, socketVars, flightVars>>

\* start() calls discoverLiveMatches, and so does every cron tick, whether
\* or not an earlier run has returned: the run awaits getFeaturedMatches.
StartDiscovery(C) ==
  \E c \in C :
    /\ discoveries[c].pc = "idle"
    /\ discoveries' = [discoveries EXCEPT ![c].pc = "fetch"]
    /\ UNCHANGED <<currentLiveMatches, subscribedMatches, liveKeysCache, registered>>
    /\ RunDone

\* getFeaturedMatches settles: a rejection is logged, a response without a
\* list returns, a list is filtered and sliced and the run awaits
\* cacheService.set('live_matches_keys', ...).
FeaturedSettled(R) ==
  \E c \in Runs, resp \in R :
    /\ discoveries[c].pc = "fetch"
    /\ discoveries' = [discoveries EXCEPT ![c] =
         IF resp.kind # "list" THEN NoRun
         ELSE [NoRun EXCEPT !.pc = "set", !.new = SelectLive(resp.matches)]]
    /\ UNCHANGED <<currentLiveMatches, subscribedMatches, liveKeysCache, registered>>
    /\ RunDone

\* cacheService.set has settled: updateSubscriptions computes both lists from
\* this.currentLiveMatches and this.subscribedMatches as they are now.
SetSettled ==
  \E c \in Runs :
    /\ discoveries[c].pc = "set"
    /\ liveKeysCache' = CacheSet(liveKeysCache, discoveries[c].new, REDIS_TTL_SHORT)
    /\ Advance(c, [discoveries[c] EXCEPT
         !.unsub = matchesToUnsubscribe(currentLiveMatches, discoveries[c].new),
         !.sub = matchesToSubscribe(currentLiveMatches, discoveries[c].new,
                                    subscribedMatches)])
    /\ UNCHANGED <<subscribedMatches, registered>>
    /\ RunDone

\* await this.unsubscribeFromMatch(matchKey) settles: fulfilled, the key is
\* deleted from subscribedMatches; rejected, the catch logs.
UnsubscribeSettled(UO) ==
  \E c \in Runs, out \in UO :
    /\ discoveries[c].pc = "unsub"
    /\ LET k == Head(discoveries[c].unsub)
       IN /\ registered' = IF out = "ok" THEN registered \ {k} ELSE registered
          /\ subscribedMatches' = IF out = "ok" THEN subscribedMatches \ {k}
                                  ELSE subscribedMatches
    /\ Advance(c, [discoveries[c] EXCEPT !.unsub = Tail(@)])
    /\ UNCHANGED liveKeysCache
    /\ RunDone

\* await this.subscribeToMatch(matchKey) settles: fulfilled, or rejected
\* with P-400-4 (the provider has the key already), the key is added.
SubscribeSettled(SO) ==
  \E c \in Runs, out \in SO :
    /\ discoveries[c].pc = "sub"
    /\ LET k == Head(discoveries[c].sub)
       IN /\ out = "already" <=> k \in registered
          /\ registered' = IF out = "ok" THEN registered \cup {k} ELSE registered
          /\ subscribedMatches' = IF out \in {"ok", "already"}
                                  THEN subscribedMatches \cup {k}
                                  ELSE subscribedMatches
    /\ Advance(c, [discoveries[c] EXCEPT !.sub = Tail(@)])
    /\ UNCHANGED liveKeysCache
    /\ RunDone

InitWebhook ==
  /\ Init
  /\ impl = "LiveMatchesWebhook"

\* Runs that overlap; every provider call is answered.
NextOverlap ==
  \/ StartDiscovery(Runs)
  \/ FeaturedSettled(StartedResponses)
  \/ SetSettled
  \/ UnsubscribeSettled({"ok"})
  \/ SubscribeSettled({"ok", "already"})

SpecOverlap == InitWebhook /\ [][NextOverlap]_vars

\* One run after the other; a provider call may fail, and a call that is
\* made again and again succeeds in the end.
NextRetry ==
  \/ StartDiscovery({1})
  \/ FeaturedSettled(StartedResponses)
  \/ SetSettled
  \/ UnsubscribeSettled({"ok", "fail"})
  \/ SubscribeSettled({"ok", "already", "fail"})

SpecRetry ==
  /\ InitWebhook
  /\ [][NextRetry]_vars
  /\ WF_vars(StartDiscovery({1}))
  /\ WF_vars(FeaturedSettled(StartedResponses))
  /\ WF_vars(SetSettled)
  /\ WF_vars(UnsubscribeSettled({"ok", "fail"}))
  /\ WF_vars(SubscribeSettled({"ok", "already", "fail"}))
  /\ SF_vars(UnsubscribeSettled({"ok"}))
  /\ SF_vars(SubscribeSettled({"ok", "already"}))

\* C34: when discovery runs have overlapped and all have returned, every key
\* of the in-memory subscribed set belongs to the Selection Set stored last
\* (a key outside it is one no later run unsubscribes: a run unsubscribes
\* only keys of this.currentLiveMatches).
C34_SubscribedInSelection ==
  (\A c \in Runs : discoveries[c].pc = "idle")
    => subscribedMatches \subseteq Range(currentLiveMatches)

\* C35: a key that leaves the Selection Set and stays out of it is eventually
\* unsubscribed at the provider, also when its first unsubscribe call failed;
\* and the in-memory subscribed set eventually equals the set registered at
\* the provider.
C35_EventuallyUnsubscribed ==
  /\ \A k \in Keys :
       <>[](k \notin Range(currentLiveMatches)) => <>[](k \notin registered)
  /\ []<>(subscribedMatches = registered)

\* --------------------------------------------- concurrent ingestions of a key
\* part_005 processWebhookData for payloads of one match, step by step between
\* its awaits. A payload is named by its version: the order in which the
\* provider produced it. The requests of two payloads run concurrently and
\* their handlers start in any order; Redis executes the commands of the one
\* connection in the order they were sent.
FlightDone ==
  /\ lastOp' = "flight"
  /\ UNCHANGED Others
  /\ UNCHANGED <<queueVars, socketVars, overlapVars>>

Command(entry, v) == [entry |-> entry, v |-> v]

\* The handler of payload v runs up to await Promise.all([...]): it builds
\* the Detailed Update and sends both SET commands.
PayloadArrives ==
  \E v \in Versions :
    /\ flights[v] = "none"
    /\ flights' = [flights EXCEPT ![v] = "sets"]
    /\ redisQueue' = redisQueue \o <<Command("match", v), Command("scorecard", v)>>
    /\ UNCHANGED <<redisData, subscriber>>
    /\ FlightDone

\* Redis executes the oldest command it was sent.
RedisExecutes ==
  /\ redisQueue # <<>>
  /\ redisData' = [redisData EXCEPT ![Head(redisQueue).entry] = Head(redisQueue).v]
  /\ redisQueue' = Tail(redisQueue)
  /\ UNCHANGED <<flights, subscriber>>
  /\ FlightDone

\* Both SETs of payload v have been answered: pushScorecardUpdate hands the
\* Detailed Update to the subscriber, and the handler awaits the upsert.
PushScorecardUpdate ==
  \E v \in Versions :
    /\ flights[v] = "sets"
    /\ \A i \in 1..Len(redisQueue) : redisQueue[i].v # v
    /\ flights' = [flights EXCEPT ![v] = "pushed"]
    /\ subscriber' = [update |-> v, read |-> 0]
    /\ UNCHANGED <<redisQueue, redisData>>
    /\ FlightDone

\* The subscriber that received an update reads the Detailed Update of the
\* key: getMatchScorecardDetailed answers from 'scorecard-detailed:<key>'.
SubscriberReads ==
  /\ subscriber.update # 0
  /\ subscriber.read = 0
  /\ subscriber' = [subscriber EXCEPT !.read = redisData.scorecard]
  /\ UNCHANGED <<redisQueue, flights, redisData>>
  /\ FlightDone

\* Match.findOneAndUpdate has settled: the handler of payload v returns.
Upserted ==
  \E v \in Versions :
    /\ flights[v] = "pushed"
    /\ flights' = [flights EXCEPT ![v] = "done"]
    /\ UNCHANGED <<redisQueue, redisData, subscriber>>
    /\ FlightDone

NextFlight ==
  \/ PayloadArrives
  \/ RedisExecutes
  \/ PushScorecardUpdate
  \/ SubscriberReads
  \/ Upserted

SpecFlight == InitHub /\ [][NextFlight]_vars

\* C40: the Detailed Update of a payload is published only after both of its
\* Tier A writes have completed, and a subscriber that reads the Detailed
\* Update of the key right after receiving an update gets data at least as
\* recent as that update, for any interleaving of concurrent ingestions of
\* the key.
C40_ReadAfterPublish ==
  /\ \A i \in 1..Len(redisQueue) : redisQueue[i].v # subscriber.update
  /\ subscriber.read # 0 => subscriber.read >= subscriber.update

====
